---- MODULE Spec2Model ----
(***************************************************************************)
(* Flow_Assistant: the JSON session store (src/src/memory.py), the cache   *)
(* of agent executors (src/src/agent.py) and the /chat, /chat/stream,      *)
(* /reset and /sessions handlers (src/src/main.py).                        *)
(*                                                                         *)
(* A session file and the sessions index are JSON dictionaries.  The set   *)
(* of session files is a function whose DOMAIN is the set of existing      *)
(* files; the index is the sequence of its entries in dictionary           *)
(* (insertion) order, which is the order json.load / json.dump preserve.   *)
(***************************************************************************)
EXTENDS Integers, Sequences, FiniteSets, TLC

\* ---------------------------------------------------------------- bounds
MaxClock == 2          \* datetime.now() takes the values 0..MaxClock
MaxMsgs == 4           \* the session files hold at most this many messages
MaxExec == 3           \* at most this many executors are ever constructed
MaxEvents == 2         \* callback hooks fired by one agent run
MaxMemory == 2         \* an executor is not run once its memory holds more
MaxTokens == 3         \* words of a query
MaxPlanCalls == 2      \* analyze_query calls on one planner
MaxPieces == 3         \* rows of the pieces table
MaxScore == 1          \* the largest distance a search returns
MaxContext == 3        \* pieces of text in a context argument
MaxReplyLen == 9003    \* characters of a reply
MaxStride == 5         \* different texts of one length
MaxHistory == 8        \* entries of the history a chat endpoint passes
MaxUses == 5           \* reads and stores of the planner cache

\* ------------------------------------------------------------- constants
NoSession == "None"                     \* session_id is None (field missing)
_DEFAULT_SESSION_KEY == "__default__"
SessionNames == {"s1", "s2"}
Texts == {"hi", "activepieces"}

VARIABLES
    sessionFiles,   \* data/chat_sessions/<id>.json : id -> session_data
    sessionsIndex,  \* data/sessions_index.json, entries in dict order
    clock,          \* the last value datetime.now() returned
    logged,         \* history: exchanges passed to log_interaction per id
    lastOp,         \* history: the last operation that ran, with its input
    \* two overlapping log_interaction calls (threads 1 and 2)
    racePc,         \* thread -> the statement it is about to run
    raceSid,        \* thread -> its session_id argument
    raceData,       \* thread -> its local session_data
    raceIndex,      \* thread -> its local copy of the index
    partial,        \* files opened for writing whose content is not valid JSON
    clobbered,      \* thread -> another writer closed the file it has open
    overlap,        \* history: a call loaded while the other had not saved yet
    \* the agent cache and the chat handlers
    agentCache,     \* _AGENT_CACHE: (use_planning, session key) -> executor
    execMemory,     \* executor -> the chat history its memory holds
    legacyHistory,  \* data/chat_history.json exists
    lastRun,        \* history: how the last chat request started
    sinceReset,     \* history: no chat request was served since POST /reset
    got,            \* history: the last two results of get_agent
    \* one POST /chat/stream request
    stMode,         \* "general", "agent" or "build_flow"
    stSid,          \* request.session_id
    genPc,          \* where the response generator stands
    workerPc,       \* where the run_agent thread stands
    threadAlive,    \* agent_thread.is_alive()
    stage,          \* the callback hook the agent run fires next
    toolCalls,      \* tool calls (or flow builder logs) made so far
    timed,          \* action_start_times holds the current reasoning step
    emitted,        \* every event put on status_queue, in order
    taken,          \* how many of them the generator has taken off the queue
    update,         \* the event the generator is about to yield
    frames,         \* the frames the client has received
    cancellationEvent,  \* cancellation_event.is_set()
    connected,      \* the client is still connected
    logCalls,       \* history: log_interaction calls made for the request
    hookRaised,     \* history: a hook raised CancellationException
    \* the query planner (src/src/planner.py)
    planCache,      \* QueryPlanner._plan_cache, oldest entry first
    planQuery,      \* the user_query of the last analyze_query call
    planResult,     \* what that call returned
    planCalls,      \* analyze_query calls made so far
    llmCalls,       \* history: responses.create calls the last call made
    planHit,        \* history: the last call was answered from the cache
    \* run_agent_with_planning (src/src/agent.py)
    runPc,          \* "idle", "running", "finished" or "stopped"
    runInput,       \* the input agent_executor.invoke was given
    iterations,     \* iterations of the executor's loop so far
    runToolCalls,   \* history: tool calls the run has made
    timeUp,         \* the run has lasted longer than max_execution_time
    \* one request with its enable_web_search flag (src/src/flow_builder.py)
    flWeb,          \* enable_web_search
    flMode,         \* "build_flow" or "agent"
    flPc,           \* the step build_flow (or the agent) is about to take
    flAnalysis,     \* analysis
    flMissing,      \* len(components["missing"])
    flHttp,         \* needs_http_fallback
    flGuide,        \* comprehensive_guide
    flResult,       \* what build_flow returned
    flTools,        \* tool calls the agent has made
    providerCalls,  \* history: calls of a web search provider
    \* find_piece_by_name (src/src/tools.py)
    pcCatalogue,    \* the rows of the pieces table, in rowid order
    pcQuery,        \* the name argument of the last call
    pcResult,       \* what that call returned
    pcCalled,       \* find_piece_by_name has been called
    \* search_activepieces_docs (src/src/tools.py)
    dsEnv,          \* os.environ: DOC_SEARCH_PER_VARIANT, DOC_SEARCH_MAX_RESULTS
    dsQuery,        \* the query argument
    dsPc,           \* "idle", "searching" or "returned"
    dsVariant,      \* how many query variants have been searched
    aggregated,     \* aggregated, in insertion order
    dsSeen,         \* history: every (key, score) a variant's search returned
    dsResult,       \* the results the returned text lists, in order
    \* get_code_generation_guidelines (src/src/tools.py)
    cgContext,      \* the context argument of the last call
    cgResult,       \* the sections of the text that call returned
    \* enqueue_reply of chat_stream (src/src/main.py)
    crReply,        \* the reply argument
    crQueue,        \* what the call put on status_queue, in order
    crCalled,       \* enqueue_reply has been called
    \* is_activepieces_query (src/src/query_utils.py)
    iqQuery,        \* the query argument of the last call
    iqHistory,      \* the history argument of the last call
    iqResult,       \* what that call returned
    iqCalled,       \* is_activepieces_query has been called
    \* check_activepieces (src/src/tools.py)
    caOpen,         \* the pieces database can be opened and queried
    caActions,      \* the rows of the actions table
    caTriggers,     \* the rows of the triggers table
    caQuery,        \* the query argument of the last call
    caResult,       \* the kind of text that call returned
    \* analyze_query calls of two threads on one planner
    tPc,            \* thread -> "idle", "lookup" or "store"
    tQuery,         \* thread -> its user_query argument
    lastUse,        \* history: cache key -> when it was last stored or read
    useClock        \* history: cache operations made so far

diskVars == <<sessionFiles, sessionsIndex, clock>>

histVars == <<logged, lastOp>>

raceOnlyVars == <<racePc, raceSid, raceData, raceIndex, partial, clobbered,
                  overlap>>

chatOnlyVars == <<agentCache, execMemory, legacyHistory, lastRun, sinceReset,
                  got>>

streamOnlyVars == <<stMode, stSid, genPc, workerPc, threadAlive, stage,
                    toolCalls, timed, emitted, taken, update, frames,
                    cancellationEvent, connected, logCalls, hookRaised>>

plannerVars == <<planCache, planQuery, planResult, planCalls, llmCalls,
                 planHit>>

\* the state of the planner and the tools, which the handlers modelled
\* above do not touch
planRunVars == <<runPc, runInput, iterations, runToolCalls, timeUp>>

flowVars == <<flWeb, flMode, flPc, flAnalysis, flMissing, flHttp, flGuide,
              flResult, flTools, providerCalls>>

pieceVars == <<pcCatalogue, pcQuery, pcResult, pcCalled>>

docVars == <<dsEnv, dsQuery, dsPc, dsVariant, aggregated, dsSeen, dsResult>>

guideVars == <<cgContext, cgResult>>

chunkVars == <<crReply, crQueue, crCalled>>

routeVars == <<iqQuery, iqHistory, iqResult, iqCalled>>

checkVars == <<caOpen, caActions, caTriggers, caQuery, caResult>>

threadVars == <<tPc, tQuery, lastUse, useClock>>

lateVars == <<chunkVars, routeVars, checkVars, threadVars>>

toolVars == <<pieceVars, docVars, guideVars, lateVars>>

restVars == <<plannerVars, planRunVars, flowVars, toolVars>>

vars == <<diskVars, histVars, raceOnlyVars, chatOnlyVars, streamOnlyVars,
          restVars>>

\* what the sequential store specification leaves untouched
storeOthers == <<raceOnlyVars, chatOnlyVars, streamOnlyVars, restVars>>

\* what the specification of the two overlapping calls leaves untouched
raceOthers == <<histVars, chatOnlyVars, streamOnlyVars, restVars>>

\* what the specification of the chat handlers leaves untouched
chatOthers == <<raceOnlyVars, streamOnlyVars, restVars>>

\* what the specification of one streamed request leaves untouched
streamOthers == <<histVars, raceOnlyVars, legacyHistory, lastRun, sinceReset,
                  got, restVars>>

\* ------------------------------------------------------------ primitives
\* the sequences over S of length n at most
RECURSIVE SeqsUpTo(_, _)
SeqsUpTo(S, n) ==
    IF n = 0 THEN {<<>>}
    ELSE LET shorter == SeqsUpTo(S, n - 1)
         IN shorter \cup {Append(q, w) : q \in shorter, w \in S}

Truthy(sid) == sid # NoSession /\ sid # ""

FileExists(files, sid) == sid \in DOMAIN files

WriteFile(files, sid, data) ==
    [x \in (DOMAIN files) \cup {sid} |-> IF x = sid THEN data ELSE files[x]]

RemoveFile(files, sid) == [x \in (DOMAIN files) \ {sid} |-> files[x]]

IndexKeys(ix) == {ix[i].session_id : i \in 1..Len(ix)}

IndexPos(ix, sid) == CHOOSE i \in 1..Len(ix) : ix[i].session_id = sid

IndexGet(ix, sid) == ix[IndexPos(ix, sid)]

\* index[session_id] = {...}: an existing key keeps its place, a new key is
\* appended
IndexSet(ix, sid, c, u, n) ==
    LET e == [session_id |-> sid, created_at |-> c, updated_at |-> u,
              message_count |-> n]
    IN IF sid \in IndexKeys(ix)
       THEN [ix EXCEPT ![IndexPos(ix, sid)] = e]
       ELSE Append(ix, e)

\* del index[session_id]
IndexDel(ix, sid) == SelectSeq(ix, LAMBDA e : e.session_id # sid)

\* datetime.now(): never goes back, capped by MaxClock
Now(t) == {n \in {t, t + 1} : n <= MaxClock}

\* role and text of each message, without the timestamps
Exchanges(msgs) ==
    [i \in 1..Len(msgs) |-> [role |-> msgs[i].role, message |-> msgs[i].message]]

RECURSIVE Flatten(_)
Flatten(pairs) ==
    IF pairs = <<>> THEN <<>>
    ELSE <<[role |-> "user", message |-> Head(pairs)[1]],
           [role |-> "assistant", message |-> Head(pairs)[2]]>>
         \o Flatten(Tail(pairs))

\* ------------------------------------------------------- src/src/memory.py
\* The store operators take the store <<files, index>> and return the store
\* the call leaves behind; t is the value datetime.now() returns in the call.
Store(files, ix) == [files |-> files, index |-> ix]

NewSessionData(sid, t) ==
    [session_id |-> sid, created_at |-> t, updated_at |-> t, messages |-> <<>>]

\* load_session: the parsed file, or None (modelled by the empty record set
\* member NoData) when the file does not exist
NoData == [session_id |-> NoSession, created_at |-> 0, updated_at |-> 0,
           messages |-> <<>>]

load_session(files, sid) == IF FileExists(files, sid) THEN files[sid] ELSE NoData

IsNone(data) == data.session_id = NoSession

create_session(st, sid, t) ==
    Store(WriteFile(st.files, sid, NewSessionData(sid, t)),
          IndexSet(st.index, sid, t, t, 0))

\* mutant of save_session: the index entry is not refreshed
save_session_stale_index(st, data, t) ==
    LET d == [data EXCEPT !.updated_at = t]
    IN Store(WriteFile(st.files, d.session_id, d), st.index)

save_session(st, data, t) ==
    LET d == [data EXCEPT !.updated_at = t]
    IN Store(WriteFile(st.files, d.session_id, d),
             IndexSet(st.index, d.session_id, d.created_at, d.updated_at,
                      Len(d.messages)))

Message(role, text, t) == [role |-> role, message |-> text, timestamp |-> t]

\* mutant of AppendInteraction: the two messages replace the stored ones
AppendInteraction_overwrite(data, u, a, t) ==
    [data EXCEPT !.messages = <<Message("user", u, t),
                                Message("assistant", a, t)>>]

AppendInteraction(data, u, a, t) ==
    [data EXCEPT !.messages = @ \o <<Message("user", u, t),
                                     Message("assistant", a, t)>>]

log_interaction(st, u, a, sid, t) ==
    IF ~Truthy(sid) THEN st
    ELSE LET found == load_session(st.files, sid)
             st1 == IF IsNone(found) THEN create_session(st, sid, t) ELSE st
             data == IF IsNone(found) THEN NewSessionData(sid, t) ELSE found
         IN save_session(st1, AppendInteraction(data, u, a, t), t)

\* mutant of clear_session: the whole index is dropped with the entry
clear_session_drop_index(st, sid) ==
    IF FileExists(st.files, sid) THEN Store(RemoveFile(st.files, sid), <<>>)
    ELSE st

clear_session(st, sid) ==
    IF FileExists(st.files, sid)
    THEN Store(RemoveFile(st.files, sid),
               IF sid \in IndexKeys(st.index) THEN IndexDel(st.index, sid)
               ELSE st.index)
    ELSE st

NoFiles == [x \in {} |-> NoData]

delete_all_sessions(st) == Store(NoFiles, <<>>)

\* list.sort(key=updated_at, reverse=True): stable, newest first
\* mutant of InsertSorted: reverse=True forgotten, oldest first
RECURSIVE InsertSorted_ascending(_, _)
InsertSorted_ascending(sorted, e) ==
    IF sorted = <<>> THEN <<e>>
    ELSE IF Head(sorted).updated_at <= e.updated_at
         THEN <<Head(sorted)>> \o InsertSorted_ascending(Tail(sorted), e)
         ELSE <<e>> \o sorted

RECURSIVE InsertSorted(_, _)
InsertSorted(sorted, e) ==
    IF sorted = <<>> THEN <<e>>
    ELSE IF Head(sorted).updated_at >= e.updated_at
         THEN <<Head(sorted)>> \o InsertSorted(Tail(sorted), e)
         ELSE <<e>> \o sorted

RECURSIVE SortNewestFirst(_)
SortNewestFirst(s) ==
    IF s = <<>> THEN <<>>
    ELSE InsertSorted(SortNewestFirst(SubSeq(s, 1, Len(s) - 1)), s[Len(s)])

\* preview: the first message's text (its first 100 characters)
SessionSummary(files, e) ==
    [session_id |-> e.session_id, created_at |-> e.created_at,
     updated_at |-> e.updated_at, message_count |-> e.message_count,
     preview |-> load_session(files, e.session_id).messages[1].message]

HasMessages(files, sid) ==
    FileExists(files, sid) /\ files[sid].messages # <<>>

RECURSIVE Summaries(_, _)
Summaries(files, ix) ==
    IF ix = <<>> THEN <<>>
    ELSE (IF HasMessages(files, Head(ix).session_id)
          THEN <<SessionSummary(files, Head(ix))>> ELSE <<>>)
         \o Summaries(files, Tail(ix))

get_all_sessions(st) == SortNewestFirst(Summaries(st.files, st.index))

\* -------------------------------------------------------- src/src/agent.py
\* the session_id values of the chat requests
ChatArgs == {"s1", _DEFAULT_SESSION_KEY, "", NoSession}

_make_cache_key(use_planning, sid) ==
    <<use_planning, IF Truthy(sid) THEN sid ELSE _DEFAULT_SESSION_KEY>>

\* HumanMessage / AIMessage for the stored "user" / "assistant" messages
Restore(msgs) ==
    Exchanges(SelectSeq(msgs, LAMBDA m : m.role \in {"user", "assistant"}))

\* create_memory: the chat history of the new memory and the store it leaves
create_memory(st, sid, t) ==
    IF ~Truthy(sid) THEN [store |-> st, history |-> <<>>]
    ELSE LET found == load_session(st.files, sid)
         IN IF IsNone(found)
            THEN [store |-> create_session(st, sid, t), history |-> <<>>]
            ELSE [store |-> st, history |-> Restore(found.messages)]

CacheSet(cache, key, e) ==
    [k \in (DOMAIN cache) \cup {key} |-> IF k = key THEN e ELSE cache[k]]

\* get_agent under _AGENT_CACHE_LOCK: the cached executor, or a new one
get_agent(cache, memory, st, sid, use_planning, t) ==
    LET key == _make_cache_key(use_planning, sid)
    IN IF key \in DOMAIN cache
       THEN [cache |-> cache, memory |-> memory, store |-> st,
             executor |-> cache[key]]
       ELSE LET m == create_memory(st, sid, t)
            IN [cache |-> CacheSet(cache, key, Len(memory) + 1),
                memory |-> Append(memory, m.history),
                store |-> m.store,
                executor |-> Len(memory) + 1]

\* the keys clear_agent_cache removes; mode is "None", "True" or "False"
KeysToRemove(cache, sid, mode) ==
    IF sid = NoSession /\ mode = "None" THEN DOMAIN cache
    ELSE {key \in DOMAIN cache :
            /\ (sid = NoSession
                \/ key[2] = (IF Truthy(sid) THEN sid ELSE _DEFAULT_SESSION_KEY))
            /\ (mode = "None" \/ key[1] = (mode = "True"))}

\* clear_agent_cache: executor.memory.clear() and removal from the cache
clear_agent_cache(cache, memory, sid, mode) ==
    LET gone == KeysToRemove(cache, sid, mode)
    IN [cache |-> [k \in (DOMAIN cache) \ gone |-> cache[k]],
        memory |-> [e \in 1..Len(memory) |->
                       IF \E k \in gone : cache[k] = e THEN <<>>
                       ELSE memory[e]]]

\* ----------------------------------------------- src/src/query_utils.py
\* normalize_query(text) is the empty string
BlankText(text) == text \in {"", " "}

\* a phrase of _DOMAIN_PHRASES is in the text
HasDomainPhrase(text) == text = "activepieces"

\* how many words of the text are in _DOMAIN_TOKENS
DomainTokenHits(text) == IF text \in {"activepieces", "slack"} THEN 1 ELSE 0

RECURSIVE SumTokenHits(_)
SumTokenHits(parts) ==
    IF parts = <<>> THEN 0
    ELSE DomainTokenHits(Head(parts)) + SumTokenHits(Tail(parts))

\* _matches_domain(" ".join(parts).strip())
MatchesJoined(parts) ==
    /\ \E i \in 1..Len(parts) : ~BlankText(parts[i])
    /\ \/ \E i \in 1..Len(parts) : HasDomainPhrase(parts[i])
       \/ SumTokenHits(parts) >= 2

_matches_domain(text) == MatchesJoined(<<text>>)

HISTORY_LIMIT == 8

SNIPPET_LIMIT == 6

LastN(seq, n) ==
    IF Len(seq) <= n THEN seq ELSE SubSeq(seq, Len(seq) - n + 1, Len(seq))

\* main.py _get_recent_history_messages: the texts of the last 8 messages
_get_recent_history_messages(files, sid) ==
    IF ~Truthy(sid) THEN <<>>
    ELSE LET recent == LastN(load_session(files, sid).messages, HISTORY_LIMIT)
             kept == SelectSeq(recent, LAMBDA msg : msg.message # "")
         IN [i \in 1..Len(kept) |-> kept[i].message]

\* query_utils.py:253-262  the six latest entries that are not blank
recent_snippets(history) ==
    LastN(SelectSeq(history, LAMBDA entry : ~BlankText(entry)), SNIPPET_LIMIT)

\* mutant of is_activepieces_query: the history is not looked at
is_activepieces_query_alone(query, history) ==
    _matches_domain(query)

is_activepieces_query(query, history) ==
    \/ _matches_domain(query)
    \/ \E i \in 1..Len(recent_snippets(history)) :
           _matches_domain(recent_snippets(history)[i])
    \/ /\ recent_snippets(history) # <<>>
       /\ MatchesJoined(<<query>> \o recent_snippets(history))

\* ------------------------------------------ the store, one call at a time
CurStore == Store(sessionFiles, sessionsIndex)

SetStore(st) == sessionFiles' = st.files /\ sessionsIndex' = st.index

StoreIds == SessionNames \cup {_DEFAULT_SESSION_KEY}

NoLogged == [s \in StoreIds |-> <<>>]

\* existed: did the session file of sid exist when the call started
Op(name, sid) ==
    [op |-> name, session_id |-> sid, existed |-> FileExists(sessionFiles, sid)]

RECURSIVE SumLen(_, _)
SumLen(files, ids) ==
    IF ids = {} THEN 0
    ELSE LET s == CHOOSE x \in ids : TRUE
         IN Len(files[s].messages) + SumLen(files, ids \ {s})

StoredMessages(files) == SumLen(files, DOMAIN files)

NoOp == [op |-> "init", session_id |-> NoSession, existed |-> FALSE]

HistParked == logged = NoLogged /\ lastOp = NoOp

RaceParked ==
    /\ racePc = <<"done", "done">>
    /\ raceSid = <<"s1", "s1">>
    /\ raceData = <<NoData, NoData>>
    /\ raceIndex = <<<<>>, <<>>>>
    /\ partial = {}
    /\ clobbered = <<FALSE, FALSE>>
    /\ overlap = FALSE

NoRun == [kind |-> "none", session_id |-> NoSession, history |-> <<>>,
          logged |-> <<>>, afterReset |-> FALSE]

NoGot == [session_id |-> NoSession, executor |-> 0]

ChatParked ==
    /\ agentCache = [k \in {} |-> 0]
    /\ execMemory = <<>>
    /\ legacyHistory = FALSE
    /\ lastRun = NoRun
    /\ sinceReset = FALSE
    /\ got = <<NoGot, NoGot>>

Event(type) == [type |-> type]

StreamParked ==
    /\ stMode = "general"
    /\ stSid = NoSession
    /\ genPc = "closed"
    /\ workerPc = "finished"
    /\ threadAlive = FALSE
    /\ stage = "returned"
    /\ toolCalls = 0
    /\ timed = FALSE
    /\ emitted = <<>>
    /\ taken = 0
    /\ update = Event("none")
    /\ frames = <<>>
    /\ cancellationEvent = FALSE
    /\ connected = FALSE
    /\ logCalls = 0
    /\ hookRaised = FALSE

\* ---------------------------------------------------- src/src/planner.py
\* A query is a sequence of words; its text is their concatenation.  The
\* words stand for themselves, but for TenWords (ten one-letter words with
\* nine blanks between them) and LongWord (one word of 130 letters).
TenWords == "a b c d e f g h i j"

LongWord == "pneumonoultramicroscopic..."

Words == {" ", "?", "is", "IS", "available", "action", "input", "step",
          "slack", TenWords, LongWord}

WordLen(w) ==
    CASE w \in {" ", "?"} -> 1
      [] w \in {"is", "IS"} -> 2
      [] w = "step" -> 4
      [] w \in {"input", "slack"} -> 5
      [] w = "action" -> 6
      [] w = "available" -> 9
      [] w = TenWords -> 19
      [] w = LongWord -> 130

\* str.count(" ") of one word
Blanks(w) == IF w = " " THEN 1 ELSE IF w = TenWords THEN 9 ELSE 0

RECURSIVE StrLen(_)
StrLen(q) == IF q = <<>> THEN 0 ELSE WordLen(Head(q)) + StrLen(Tail(q))

RECURSIVE CountBlanks(_)
CountBlanks(q) ==
    IF q = <<>> THEN 0 ELSE Blanks(Head(q)) + CountBlanks(Tail(q))

\* str.lower()
Lower(q) == [i \in 1..Len(q) |-> IF q[i] = "IS" THEN "is" ELSE q[i]]

RECURSIVE LStrip(_)
LStrip(q) == IF q # <<>> /\ Head(q) = " " THEN LStrip(Tail(q)) ELSE q

RECURSIVE RStrip(_)
RStrip(q) ==
    IF q # <<>> /\ q[Len(q)] = " " THEN RStrip(SubSeq(q, 1, Len(q) - 1))
    ELSE q

\* str.strip()
Strip(q) == RStrip(LStrip(q))

\* keyword in query_lower
Contains(q, keyword) == \E i \in 1..Len(q) : q[i] = keyword

\* query_lower.split("?")[0]
BeforeFirstMark(q) ==
    IF Contains(q, "?")
    THEN SubSeq(q, 1, (CHOOSE i \in 1..Len(q) :
                          q[i] = "?" /\ \A j \in 1..(i - 1) : q[j] # "?") - 1)
    ELSE q

SIMPLE_LOOKUP_KEYWORDS ==
    {"available", "exist", "exists", "support", "supported", "have",
     "integration", "piece", "trigger", "action", "connector"}

SIMPLE_LOOKUP_VERBS == {"is", "does", "do", "can", "are", "was"}

DETAIL_KEYWORDS ==
    {"input", "field", "property", "parameter", "configuration", "configure",
     "setup", "set up", "mapping", "settings"}

ACTION_TERMS == {"action", "trigger", "step", "task", "piece"}

MAX_SIMPLE_LOOKUP_LENGTH == 140

MAX_DETAIL_LOOKUP_LENGTH == 260

PlanKeys == {"intent", "query_type", "action_plan", "recommended_tools",
             "search_queries", "max_tool_calls", "stopping_condition",
             "fallback_strategy", "context"}

\* a plan dictionary: keys is the set of keys it has; the value of a key it
\* does not have is unused
NewPlan(keys, intent, query, query_type, steps, tools, max_tool_calls) ==
    [keys |-> keys,
     intent |-> [text |-> intent, query |-> query],
     query_type |-> query_type,
     action_plan |-> steps,
     recommended_tools |-> tools,
     search_queries |-> <<query>>,
     max_tool_calls |-> max_tool_calls]

_looks_like_simple_lookup(query_lower) ==
    IF StrLen(query_lower) > MAX_SIMPLE_LOOKUP_LENGTH THEN FALSE
    ELSE IF \E keyword \in SIMPLE_LOOKUP_KEYWORDS :
                Contains(query_lower, keyword) THEN TRUE
    ELSE IF /\ query_lower # <<>>
            /\ query_lower[Len(query_lower)] = "?"
            /\ CountBlanks(BeforeFirstMark(query_lower)) <= 8 THEN TRUE
    ELSE /\ Len(query_lower) >= 2
         /\ query_lower[1] \in SIMPLE_LOOKUP_VERBS
         /\ query_lower[2] = " "

_create_simple_lookup_plan(user_query) ==
    NewPlan(PlanKeys, "Verify if available", Strip(user_query),
            "simple_check", 3, <<"check_activepieces">>, 1)

_looks_like_detail_lookup(query_lower) ==
    IF StrLen(query_lower) > MAX_DETAIL_LOOKUP_LENGTH THEN FALSE
    ELSE IF ~\E keyword \in DETAIL_KEYWORDS : Contains(query_lower, keyword)
    THEN FALSE
    ELSE \E term \in ACTION_TERMS : Contains(query_lower, term)

_create_detail_lookup_plan(user_query) ==
    NewPlan(PlanKeys, "Gather configuration details", Strip(user_query),
            "configuration", 3, <<"search_activepieces_docs">>, 1)

\* Python's None
NoPlan == NewPlan({}, "None", <<>>, "None", 0, <<>>, 0)

\* mutant of _build_fast_plan: the configuration test is made first
_build_fast_plan_detail_first(user_query) ==
    LET normalized == Strip(user_query)
        lowered == Lower(normalized)
    IN IF normalized = <<>> THEN NoPlan
       ELSE IF _looks_like_detail_lookup(lowered)
       THEN _create_detail_lookup_plan(normalized)
       ELSE IF _looks_like_simple_lookup(lowered)
       THEN _create_simple_lookup_plan(normalized)
       ELSE NoPlan

_build_fast_plan(user_query) ==
    LET normalized == Strip(user_query)
        lowered == Lower(normalized)
    IN IF normalized = <<>> THEN NoPlan
       ELSE IF _looks_like_simple_lookup(lowered)
       THEN _create_simple_lookup_plan(normalized)
       ELSE IF _looks_like_detail_lookup(lowered)
       THEN _create_detail_lookup_plan(normalized)
       ELSE NoPlan

_create_fallback_plan(user_query) ==
    NewPlan(PlanKeys \ {"max_tool_calls", "stopping_condition",
                        "fallback_strategy"},
            "Process user query", user_query, "general", 3,
            <<"check_activepieces", "search_activepieces_docs">>, 0)

\* bool(plan): a dictionary is true when it has a key
PlanTruthy(plan) == plan.keys # {}

\* PLANNER_CACHE_MAXSIZE
_cache_maxsize == 2

CachePos(cache, key) ==
    IF \E i \in 1..Len(cache) : cache[i].key = key
    THEN CHOOSE i \in 1..Len(cache) : cache[i].key = key
    ELSE 0

Without(cache, key) == SelectSeq(cache, LAMBDA e : e.key # key)

\* OrderedDict.move_to_end
MoveToEnd(cache, key) ==
    Append(Without(cache, key), cache[CachePos(cache, key)])

\* mutant of _get_cached_plan: a read leaves the order of the cache alone
_get_cached_plan_unmoved(cache, key) ==
    IF CachePos(cache, key) = 0 THEN [plan |-> NoPlan, cache |-> cache]
    ELSE [plan |-> cache[CachePos(cache, key)].plan, cache |-> cache]

\* _get_cached_plan: the plan found (None when there is none) and the cache
_get_cached_plan(cache, key) ==
    IF CachePos(cache, key) = 0 THEN [plan |-> NoPlan, cache |-> cache]
    ELSE [plan |-> cache[CachePos(cache, key)].plan,
          cache |-> MoveToEnd(cache, key)]

\* mutant of _store_plan: the fallback plan is not kept
_store_plan_not_fallback(cache, key, plan) ==
    LET put == Append(Without(cache, key), [key |-> key, plan |-> plan])
    IN IF plan.query_type = "general" THEN cache
       ELSE IF Len(put) > _cache_maxsize THEN Tail(put) ELSE put

_store_plan(cache, key, plan) ==
    LET put == Append(Without(cache, key), [key |-> key, plan |-> plan])
    IN IF Len(put) > _cache_maxsize THEN Tail(put) ELSE put

\* what responses.create and json.loads make of the model's answer
LlmPlan == NewPlan(PlanKeys, "Build a flow", <<"slack">>, "flow_building", 2,
                   <<"check_activepieces", "search_activepieces_docs">>, 3)

LlmReplies ==
    {[kind |-> "json", plan |-> LlmPlan],
     [kind |-> "json", plan |-> NewPlan({}, "None", <<>>, "None", 0, <<>>, 0)],
     [kind |-> "json", plan |-> [LlmPlan EXCEPT !.keys = {"intent"}]],
     [kind |-> "json_not_dict", plan |-> NoPlan],
     [kind |-> "malformed", plan |-> NoPlan],
     [kind |-> "api_error", plan |-> NoPlan]}

\* analyze_query: what it returns, the cache it leaves, and the number of
\* responses.create calls it made
analyze_query(cache, user_query, reply) ==
    LET normalized_query == Strip(user_query)
        cache_key == Lower(normalized_query)
        cached == _get_cached_plan(cache, cache_key)
        fast_plan == _build_fast_plan(normalized_query)
        fallback == _create_fallback_plan(normalized_query)
    IN IF normalized_query = <<>>
       THEN [result |-> _create_fallback_plan(user_query), cache |-> cache,
             llm |-> 0, hit |-> FALSE]
       ELSE IF PlanTruthy(cached.plan)
       THEN [result |-> cached.plan, cache |-> cached.cache, llm |-> 0,
             hit |-> TRUE]
       ELSE IF PlanTruthy(fast_plan)
       THEN [result |-> fast_plan,
             cache |-> _store_plan(cached.cache, cache_key, fast_plan),
             llm |-> 0, hit |-> FALSE]
       ELSE IF reply.kind = "json"
       THEN [result |-> reply.plan,
             cache |-> _store_plan(cached.cache, cache_key, reply.plan),
             llm |-> 1, hit |-> FALSE]
       ELSE [result |-> fallback,
             cache |-> _store_plan(cached.cache, cache_key, fallback),
             llm |-> 1, hit |-> FALSE]

PlannerParked ==
    /\ planCache = <<>>
    /\ planQuery = <<>>
    /\ planResult = NoPlan
    /\ planCalls = 0
    /\ llmCalls = 0
    /\ planHit = FALSE

\* format_plan_for_agent: the text of the plan, of which the model keeps the
\* line "MAXIMUM TOOL CALLS ALLOWED"
format_plan_for_agent(plan) ==
    [query_type |-> IF "query_type" \in plan.keys THEN plan.query_type
                    ELSE "general",
     max_tool_calls |-> IF "max_tool_calls" \in plan.keys
                        THEN plan.max_tool_calls ELSE 3]

\* create_guided_input: enhanced_input is the plan text and the user query
create_guided_input(plan, user_query) ==
    [original_query |-> user_query,
     plan |-> plan,
     enhanced_input |-> [plan_context |-> format_plan_for_agent(plan),
                         user_query |-> user_query]]

NoInput == [plan_context |-> format_plan_for_agent(NoPlan), user_query |-> <<>>]

\* AgentExecutor(max_iterations=25, ...)
max_iterations == 25

\* mutant of _should_continue: the plan's limit on tool calls is enforced
_should_continue_plan_limit(iters, time_up, calls, input) ==
    iters < max_iterations /\ ~time_up
        /\ calls < input.plan_context.max_tool_calls

\* AgentExecutor._should_continue as _create_planning_agent configures it:
\* max_iterations and max_execution_time, and nothing of the input
_should_continue(iters, time_up, calls, input) ==
    iters < max_iterations /\ ~time_up

PlanRunParked ==
    /\ runPc = "idle"
    /\ runInput = NoInput
    /\ iterations = 0
    /\ runToolCalls = 0
    /\ timeUp = FALSE

\* ------------------------------------------------ src/src/flow_builder.py
AnalysisKeys == {"flow_goal", "trigger_type", "actions_needed", "is_clear",
                 "complexity", "confidence"}

\* an analysis dictionary: the keys it has, and its confidence
NewAnalysis(keys, confidence) ==
    [none |-> FALSE, keys |-> keys, confidence |-> confidence]

\* Python's None
NoAnalysis == [none |-> TRUE, keys |-> {}, confidence |-> "None"]

\* what responses.create and json.loads make of the analysis answer
AnalysisReplies ==
    {[kind |-> "json", analysis |-> NewAnalysis(AnalysisKeys, "high")],
     [kind |-> "json", analysis |-> NewAnalysis(AnalysisKeys, "low")],
     [kind |-> "json", analysis |-> NewAnalysis({}, "None")],
     [kind |-> "json", analysis |-> NewAnalysis({"is_clear"}, "None")],
     [kind |-> "json_not_dict", analysis |-> NoAnalysis],
     [kind |-> "malformed", analysis |-> NoAnalysis],
     [kind |-> "api_error", analysis |-> NoAnalysis]}

\* analyze_flow_request: the parsed dictionary, or the fixed one of the
\* except branch
analyze_flow_request(reply) ==
    IF reply.kind = "json" THEN reply.analysis
    ELSE NewAnalysis({"flow_goal", "is_clear", "complexity", "confidence"},
                     "medium")

\* _latest_http_request_docs: the number of web_search calls it makes
_latest_http_request_docs(enable_web_search) ==
    IF ~enable_web_search THEN 0 ELSE 1

Min(a, b) == IF a < b THEN a ELSE b

\* _search_for_missing_info: the number of provider calls it makes, one for
\* each of the first two search queries
_search_for_missing_info(enable_web_search, analysis, missing) ==
    IF ~enable_web_search THEN 0
    ELSE Min(2, missing + (IF "flow_goal" \in analysis.keys THEN 1 ELSE 0))

\* str.strip() of the text a model returned
StripText(text) == IF text = " " THEN "" ELSE text

ModelTexts == {"", " ", "# Guide"}

\* _create_basic_plan: never empty
_create_basic_plan == "# ActivePieces Flow Building Guide"

\* the names of the tools get_all_tools returns
get_all_tools ==
    <<"check_activepieces_tool", "list_piece_actions_and_triggers_tool",
      "list_action_inputs_tool", "search_piece_catalog_tool",
      "get_top_pieces_overview_tool", "list_pieces_by_auth_type_tool",
      "search_actions_by_keyword_tool", "search_triggers_by_keyword_tool",
      "search_activepieces_docs_tool", "web_search_tool",
      "get_code_generation_guidelines_tool">>

NoFlowResult == [keys |-> {}, guide |-> "", analysis |-> NoAnalysis]

FlowParked ==
    /\ flWeb = FALSE
    /\ flMode = "build_flow"
    /\ flPc = "returned"
    /\ flAnalysis = NoAnalysis
    /\ flMissing = 0
    /\ flHttp = FALSE
    /\ flGuide = ""
    /\ flResult = NoFlowResult
    /\ flTools = 0
    /\ providerCalls = 0

\* ------------------------------- src/src/tools.py: find_piece_by_name
\* str.lower() of one piece of text
LowerWord(w) ==
    CASE w = "Google" -> "google"
      [] w = "Sheets" -> "sheets"
      [] w = "Drive" -> "drive"
      [] w \in {"Slack", "SLACK"} -> "slack"
      [] OTHER -> w

\* str.lower()
PieceLower(q) == [i \in 1..Len(q) |-> LowerWord(q[i])]

\* a row of the pieces table
NewPiece(name, display_name, description) ==
    [name |-> name, display_name |-> display_name,
     description |-> description]

\* Python's None
NoPiece == NewPiece(<<>>, <<>>, <<>>)

GoogleSheets ==
    NewPiece(<<"google", "-", "sheets">>, <<"Google", " ", "Sheets">>,
             <<"files">>)

GoogleDrive ==
    NewPiece(<<"google", "-", "drive">>, <<"Google", " ", "Drive">>,
             <<"files">>)

\* a Google Drive row whose description mentions Google Sheets
GoogleDriveExports ==
    NewPiece(<<"google", "-", "drive">>, <<"Google", " ", "Drive">>,
             <<"Google", " ", "Sheets", " ", "files">>)

SlackPiece == NewPiece(<<"slack">>, <<"Slack">>, <<"files">>)

PieceRows == {GoogleSheets, GoogleDrive, GoogleDriveExports, SlackPiece}

\* the pieces table: name is UNIQUE
Catalogues ==
    {c \in SeqsUpTo(PieceRows, MaxPieces) :
        \A i, j \in 1..Len(c) : i # j => c[i].name # c[j].name}

\* SELECT * FROM pieces WHERE name = ?  (the comparison is case-sensitive)
get_piece_details(catalogue, piece_name) ==
    IF \E i \in 1..Len(catalogue) : catalogue[i].name = piece_name
    THEN catalogue[CHOOSE i \in 1..Len(catalogue) :
                       catalogue[i].name = piece_name]
    ELSE NoPiece

\* the terms the FTS5 tokenizer makes of a text: runs of letters, case folded
FtsTerms(text) ==
    {LowerWord(text[i]) : i \in {j \in 1..Len(text) : text[j] \notin {" ", "-"}}}

\* an FTS5 query must have a term, and a bare "-" is not part of a term
FtsQueryOk(query) == FtsTerms(query) # {} /\ ~Contains(query, "-")

\* pieces_fts MATCH ?: every term of the query is in one of the columns
FtsMatch(row, query) ==
    FtsTerms(query) \subseteq
        (FtsTerms(row.name) \cup FtsTerms(row.display_name)
            \cup FtsTerms(row.description))

FirstN(seq, n) == IF Len(seq) <= n THEN seq ELSE SubSeq(seq, 1, n)

\* ActivepiecesDB.search_pieces: the matching rows in rowid order
search_pieces(catalogue, query, limit) ==
    IF ~FtsQueryOk(query) THEN [raised |-> TRUE, rows |-> <<>>]
    ELSE [raised |-> FALSE,
          rows |-> FirstN(SelectSeq(catalogue,
                                    LAMBDA row : FtsMatch(row, query)),
                          limit)]

find_piece_by_name(catalogue, name) ==
    LET name_lower == Strip(PieceLower(name))
        piece == get_piece_details(catalogue, name_lower)
        results == search_pieces(catalogue, name_lower, 1)
    IN IF piece # NoPiece THEN piece
       ELSE IF results.raised THEN NoPiece
       ELSE IF results.rows # <<>>
            THEN get_piece_details(catalogue, results.rows[1].name)
       ELSE NoPiece

PieceParked ==
    /\ pcCatalogue = <<>>
    /\ pcQuery = <<>>
    /\ pcResult = NoPiece
    /\ pcCalled = FALSE

\* ------------------------- src/src/tools.py: search_activepieces_docs
\* str.lower() of one word of a documentation query
DocLowerWord(w) == IF w = "ActivePieces" THEN "activepieces" ELSE LowerWord(w)

DocLower(q) == [i \in 1..Len(q) |-> DocLowerWord(q[i])]

\* re.sub(r"\s+", " ", text): runs of blanks become one blank
RECURSIVE CollapseBlanks(_)
CollapseBlanks(q) ==
    IF Len(q) < 2 THEN q
    ELSE IF q[1] = " " /\ q[2] = " " THEN CollapseBlanks(Tail(q))
    ELSE <<q[1]>> \o CollapseBlanks(Tail(q))

\* query_utils.normalize_query
normalize_query(text) == Strip(CollapseBlanks(text))

\* the members of query_utils._STOPWORDS among the words of the model
_STOPWORDS == {"list", "pieces", "activepieces", "use", "integrations"}

\* " ".join(words)
RECURSIVE Join(_)
Join(words) ==
    IF Len(words) < 2 THEN words
    ELSE <<words[1], " ">> \o Join(Tail(words))

\* query_utils._extract_topic_phrase, max_tokens = 6
_extract_topic_phrase(normalized_query) ==
    Join(FirstN(SelectSeq(normalized_query,
                          LAMBDA w : w # " " /\ DocLowerWord(w) \notin _STOPWORDS),
                6))

\* add_variant of generate_query_variants; seen holds the lowered variants
add_variant(variants, candidate) ==
    LET cleaned == normalize_query(candidate)
    IN IF cleaned = <<>> THEN variants
       ELSE IF \E i \in 1..Len(variants) :
                   DocLower(variants[i]) = DocLower(cleaned)
            THEN variants
       ELSE Append(variants, cleaned)

\* the loop over fallback_variants: it stops once there are min_variants
RECURSIVE AddFallbacks(_, _, _)
AddFallbacks(variants, fallbacks, min_variants) ==
    IF fallbacks = <<>> \/ Len(variants) >= min_variants THEN variants
    ELSE AddFallbacks(add_variant(variants, Head(fallbacks)),
                      Tail(fallbacks), min_variants)

\* query_utils.generate_query_variants, min_variants = 3.  The closing while
\* loop never runs: of the five fallbacks, all different and none of them
\* the query itself, the three earlier variants can shadow three at most.
generate_query_variants(user_query) ==
    LET normalized == normalize_query(user_query)
        topic_phrase == _extract_topic_phrase(normalized)
        first == add_variant(<<>>, normalized)
        themed ==
            IF topic_phrase # <<>>
            THEN add_variant(
                   add_variant(
                     add_variant(first,
                         <<"ActivePieces", " ">> \o topic_phrase
                             \o <<" ", "integrations">>),
                     topic_phrase \o <<" ", "ActivePieces", " ", "pieces">>),
                   topic_phrase
                       \o <<" ", "automation", " ", "in", " ", "ActivePieces">>)
            ELSE add_variant(
                   add_variant(first, normalized \o <<" ", "ActivePieces">>),
                   <<"ActivePieces", " ">> \o normalized)
        fallback_variants ==
            <<normalized \o <<" ", "integrations">>,
              normalized \o <<" ", "automation">>,
              normalized \o <<" ", "setup", " ", "ActivePieces">>,
              normalized \o <<" ", "use", " ", "cases">>,
              normalized \o <<" ", "documentation", " ", "ActivePieces">>>>
    IN IF normalized = <<>> THEN <<>>
       ELSE AddFallbacks(themed, fallback_variants, 3)

Max(a, b) == IF a > b THEN a ELSE b

\* int(os.getenv(name, default)) with its except ValueError
EnvInt(value, default) ==
    CASE value = "0" -> 0
      [] value = "1" -> 1
      [] value = "2" -> 2
      [] OTHER -> default

EnvValues == {"unset", "0", "1", "2", "many"}

per_variant_k(env) == Max(1, EnvInt(env.DOC_SEARCH_PER_VARIANT, 4))

max_results(env) == Max(1, EnvInt(env.DOC_SEARCH_MAX_RESULTS, 8))

\* the documents of the index: source, page_content[:200] and the rest;
\* the first two differ after their first 200 characters only
Documents ==
    {[source |-> "pieces.md", head |-> "Slack", rest |-> "actions"],
     [source |-> "pieces.md", head |-> "Slack", rest |-> "triggers"],
     [source |-> "flows.md", head |-> "Slack", rest |-> "actions"]}

\* f"{doc.metadata.get('source', '')}|{doc.page_content[:200]}"
DocKey(doc) == <<doc.source, doc.head>>

Scores == 0..MaxScore

\* what similarity_search_with_score(variant, k) can return: k documents at
\* most, each once, with its distance (the FAISS store get_vector_store
\* builds has the method, so a hit always has a score)
HitLists(k) ==
    {h \in SeqsUpTo(Documents \X Scores, Min(k, Cardinality(Documents))) :
        \A i, j \in 1..Len(h) : i # j => h[i][1] # h[j][1]}

KeyPos(agg, key) ==
    IF \E i \in 1..Len(agg) : DocKey(agg[i].doc) = key
    THEN CHOOSE i \in 1..Len(agg) : DocKey(agg[i].doc) = key
    ELSE 0

\* mutant of Aggregate: a stored document gives way to any later hit
Aggregate_keep_last(agg, hit, variant) ==
    LET item == [doc |-> hit[1], score |-> hit[2], variant |-> variant]
        pos == KeyPos(agg, DocKey(hit[1]))
    IN IF pos = 0 THEN Append(agg, item) ELSE [agg EXCEPT ![pos] = item]

\* tools.py:700-710: the body of the loop over one variant's results
Aggregate(agg, hit, variant) ==
    LET item == [doc |-> hit[1], score |-> hit[2], variant |-> variant]
        pos == KeyPos(agg, DocKey(hit[1]))
    IN IF pos = 0 THEN Append(agg, item)
       ELSE IF hit[2] < agg[pos].score THEN [agg EXCEPT ![pos] = item]
       ELSE agg

RECURSIVE AggregateAll(_, _, _)
AggregateAll(agg, hits, variant) ==
    IF hits = <<>> THEN agg
    ELSE AggregateAll(Aggregate(agg, Head(hits), variant), Tail(hits), variant)

\* sorted(..., key=score) is stable: an item goes behind its equals
RECURSIVE InsertByScore(_, _)
InsertByScore(ranked, item) ==
    IF ranked = <<>> THEN <<item>>
    ELSE IF item.score < Head(ranked).score THEN <<item>> \o ranked
    ELSE <<Head(ranked)>> \o InsertByScore(Tail(ranked), item)

RECURSIVE SortedByScore(_)
SortedByScore(items) ==
    IF items = <<>> THEN <<>>
    ELSE InsertByScore(SortedByScore(SubSeq(items, 1, Len(items) - 1)),
                       items[Len(items)])

\* tools.py:715-729: the results the returned text lists
ranked_results(agg, env) == FirstN(SortedByScore(agg), max_results(env))

NoEnv == [DOC_SEARCH_PER_VARIANT |-> "unset", DOC_SEARCH_MAX_RESULTS |-> "unset"]

DocParked ==
    /\ dsEnv = NoEnv
    /\ dsQuery = <<>>
    /\ dsPc = "idle"
    /\ dsVariant = 0
    /\ aggregated = <<>>
    /\ dsSeen = {}
    /\ dsResult = <<>>

\* ------------------- src/src/tools.py: get_code_generation_guidelines
\* str.lower() of one piece of a context
LowerContextWord(w) ==
    CASE w \in {"API", "Api"} -> "api"
      [] w = "CALL" -> "call"
      [] w = "Data" -> "data"
      [] w = "TRANSFORM" -> "transform"
      [] OTHER -> w

ContextLower(context) ==
    [i \in 1..Len(context) |-> LowerContextWord(context[i])]

base_guidelines == "=== ACTIVEPIECES CODE GENERATION GUIDELINES ==="

ApiCallSection == "ADDITIONAL GUIDELINES FOR API CALLS:"

DataTransformSection == "ADDITIONAL GUIDELINES FOR DATA TRANSFORMATION:"

\* mutant of get_code_generation_guidelines: the context is compared as given
get_code_generation_guidelines_as_given(context) ==
    IF context = <<"api", "_", "call">>
    THEN <<base_guidelines, ApiCallSection>>
    ELSE IF context = <<"data", "_", "transform">>
    THEN <<base_guidelines, DataTransformSection>>
    ELSE <<base_guidelines>>

\* the text returned, as the sequence of its sections
get_code_generation_guidelines(context) ==
    IF ContextLower(context) = <<"api", "_", "call">>
    THEN <<base_guidelines, ApiCallSection>>
    ELSE IF ContextLower(context) = <<"data", "_", "transform">>
    THEN <<base_guidelines, DataTransformSection>>
    ELSE <<base_guidelines>>

GuideParked == cgContext = <<>> /\ cgResult = <<>>

\* Python's None where a reply is expected
NoReply == [none |-> TRUE, text |-> <<>>]

ChunkParked == crReply = NoReply /\ crQueue = <<>> /\ crCalled = FALSE

RouteParked ==
    /\ iqQuery = ""
    /\ iqHistory = <<>>
    /\ iqResult = FALSE
    /\ iqCalled = FALSE

CheckParked ==
    /\ caOpen = TRUE
    /\ caActions = <<>>
    /\ caTriggers = <<>>
    /\ caQuery = <<>>
    /\ caResult = "not called"

PlanThreads == {1, 2}

ThreadParked ==
    /\ tPc = [t \in PlanThreads |-> "idle"]
    /\ tQuery = [t \in PlanThreads |-> <<>>]
    /\ lastUse = <<>>
    /\ useClock = 0

LateParked == ChunkParked /\ RouteParked /\ CheckParked /\ ThreadParked

ToolParked == PieceParked /\ DocParked /\ GuideParked /\ LateParked

RestParked == PlannerParked /\ PlanRunParked /\ FlowParked /\ ToolParked

StoreInit ==
    /\ sessionFiles = NoFiles
    /\ sessionsIndex = <<>>
    /\ clock = 0
    /\ HistParked
    /\ RaceParked
    /\ ChatParked
    /\ StreamParked
    /\ RestParked

DoCreateSession(sid) ==
    \E t \in Now(clock) :
        /\ SetStore(create_session(CurStore, sid, t))
        /\ clock' = t
        /\ logged' = [logged EXCEPT ![sid] = <<>>]
        /\ lastOp' = Op("create_session", sid)
        /\ UNCHANGED storeOthers

DoLogInteraction(u, a, sid) ==
    /\ Truthy(sid) => StoredMessages(sessionFiles) + 2 <= MaxMsgs
    /\ \E t \in Now(clock) :
        /\ SetStore(log_interaction(CurStore, u, a, sid, t))
        /\ clock' = t
        /\ logged' = IF Truthy(sid)
                     THEN [logged EXCEPT ![sid] = Append(@, <<u, a>>)]
                     ELSE logged
        /\ lastOp' = Op("log_interaction", sid)
        /\ UNCHANGED storeOthers

DoClearSession(sid) ==
    /\ SetStore(clear_session(CurStore, sid))
    /\ logged' = IF FileExists(sessionFiles, sid)
                 THEN [logged EXCEPT ![sid] = <<>>] ELSE logged
    /\ lastOp' = Op("clear_session", sid)
    /\ UNCHANGED <<clock, storeOthers>>

DoDeleteAllSessions ==
    /\ SetStore(delete_all_sessions(CurStore))
    /\ logged' = NoLogged
    /\ lastOp' = Op("delete_all_sessions", NoSession)
    /\ UNCHANGED <<clock, storeOthers>>

StoreNext ==
    \/ \E sid \in SessionNames : DoCreateSession(sid)
    \/ \E u \in Texts, a \in Texts, sid \in SessionNames \cup {"", NoSession} :
           DoLogInteraction(u, a, sid)
    \/ \E sid \in SessionNames : DoClearSession(sid)
    \/ DoDeleteAllSessions

SpecStore == StoreInit /\ [][StoreNext]_vars

\* ------------------------------------------------- claims about the store
Listed(l) == {l[i].session_id : i \in 1..Len(l)}

\* C3: with calls made one at a time, the index has an entry for a session id
\* exactly when its file exists, and the entry's message_count is the number
\* of messages in the file.
C3_IndexMatchesFiles ==
    /\ IndexKeys(sessionsIndex) = DOMAIN sessionFiles
    /\ \A sid \in DOMAIN sessionFiles :
           IndexGet(sessionsIndex, sid).message_count
               = Len(sessionFiles[sid].messages)

C3_Witness ==
    /\ lastOp.op = "log_interaction" /\ lastOp.existed
    /\ Len(sessionFiles[lastOp.session_id].messages) = 4
    /\ IndexGet(sessionsIndex, lastOp.session_id).message_count = 4

\* C5: after k log_interaction calls on a created session, load_session
\* returns the 2k messages in call order, user then assistant, nothing
\* dropped, reordered or rewritten.
C5_LoadReturnsLogged ==
    \A sid \in SessionNames :
        FileExists(sessionFiles, sid) =>
            Exchanges(load_session(sessionFiles, sid).messages)
                = Flatten(logged[sid])

C5_Witness ==
    \E sid \in SessionNames :
        /\ FileExists(sessionFiles, sid)
        /\ Len(logged[sid]) = 2
        /\ logged[sid][1] # logged[sid][2]
        /\ Len(load_session(sessionFiles, sid).messages) = 4

\* C8: clear_session(s) on an existing session leaves load_session(s) = None
\* and no entry for s in get_all_sessions(), and changes neither the file
\* nor the index entry of any other session.
C8_ClearSessionFrame ==
    [][\A sid \in SessionNames :
          (lastOp' = [op |-> "clear_session", session_id |-> sid,
                      existed |-> TRUE])
          => /\ IsNone(load_session(sessionFiles', sid))
             /\ sid \notin Listed(get_all_sessions(
                               Store(sessionFiles', sessionsIndex')))
             /\ \A o \in SessionNames \ {sid} :
                   /\ FileExists(sessionFiles', o) = FileExists(sessionFiles, o)
                   /\ FileExists(sessionFiles, o)
                         => sessionFiles'[o] = sessionFiles[o]
                   /\ (o \in IndexKeys(sessionsIndex'))
                         = (o \in IndexKeys(sessionsIndex))
                   /\ o \in IndexKeys(sessionsIndex)
                         => IndexGet(sessionsIndex', o)
                                = IndexGet(sessionsIndex, o)]_vars

C8_Witness ==
    /\ lastOp.op = "clear_session" /\ lastOp.existed
    /\ \E o \in DOMAIN sessionFiles :
           /\ sessionFiles[o].messages # <<>>
           /\ o \in IndexKeys(sessionsIndex)

NewestFirst(l) ==
    \A i \in 1..Len(l), j \in 1..Len(l) :
        i < j => l[i].updated_at >= l[j].updated_at

OneEntryEach(l, ids) ==
    /\ Listed(l) = ids
    /\ \A i \in 1..Len(l), j \in 1..Len(l) :
           l[i].session_id = l[j].session_id => i = j

Threads == {1, 2}

IndexFile == "@index"

RaceExchange(p) == IF p = 1 THEN <<"u1", "a1">> ELSE <<"u2", "a2">>

BaseExchange == <<"u0", "a0">>

Other(p) == 3 - p

load_session_racy(sid) ==
    IF sid \in partial THEN NoData ELSE load_session(sessionFiles, sid)

load_sessions_index_racy ==
    IF IndexFile \in partial THEN <<>> ELSE sessionsIndex

\* the file a thread has open for writing, "" when none
OpenFile(p) ==
    CASE racePc[p] \in {"c_dump", "s_dump"} -> raceSid[p]
      [] racePc[p] \in {"c_ixdump", "s_ixdump"} -> IndexFile
      [] OTHER -> ""

\* closing a write: the other thread's handle on the same file is clobbered
ClobberOther(p, file) ==
    clobbered' = [q \in Threads |->
                     IF q = p THEN FALSE
                     ELSE clobbered[q] \/ OpenFile(q) = file]

\* mutant of DataToSave: the file is read again when it is saved
DataToSave_reload(p, t) ==
    [AppendInteraction(
        IF FileExists(sessionFiles, raceSid[p]) /\ raceSid[p] \notin partial
        THEN sessionFiles[raceSid[p]] ELSE raceData[p],
        RaceExchange(p)[1], RaceExchange(p)[2], t)
        EXCEPT !.updated_at = t]

\* the session_data save_session writes
DataToSave(p, t) ==
    [AppendInteraction(raceData[p], RaceExchange(p)[1], RaceExchange(p)[2], t)
        EXCEPT !.updated_at = t]

RaceInit ==
    /\ clock = 0
    /\ \E withBase \in BOOLEAN :
         LET st == IF withBase
                   THEN log_interaction(Store(NoFiles, <<>>), BaseExchange[1],
                                        BaseExchange[2], "s1", 0)
                   ELSE Store(NoFiles, <<>>)
         IN sessionFiles = st.files /\ sessionsIndex = st.index
    /\ racePc = [p \in Threads |-> "load"]
    /\ raceSid \in [Threads -> SessionNames]
    /\ raceData = [p \in Threads |-> NoData]
    /\ raceIndex = [p \in Threads |-> <<>>]
    /\ partial = {}
    /\ clobbered = [p \in Threads |-> FALSE]
    /\ overlap = FALSE
    /\ HistParked
    /\ ChatParked
    /\ StreamParked
    /\ RestParked

Goto(p, label) == racePc' = [racePc EXCEPT ![p] = label]

\* memory.py:179  session_data = load_session(session_id)
RLoad(p) ==
    /\ racePc[p] = "load"
    /\ LET found == load_session_racy(raceSid[p])
       IN /\ raceData' = [raceData EXCEPT ![p] = found]
          /\ Goto(p, IF IsNone(found) THEN "c_open" ELSE "s_open")
    /\ overlap' = (overlap \/ (/\ raceSid[Other(p)] = raceSid[p]
                               /\ racePc[Other(p)] \in
                                    {"c_open", "c_dump", "c_ixload", "c_ixopen",
                                     "c_ixdump", "s_open", "s_dump"}))
    /\ UNCHANGED <<sessionFiles, sessionsIndex, clock, raceSid, raceIndex,
                   partial, clobbered, raceOthers>>

\* memory.py:50-60 / 95-99  build session_data, open(session_file, "w")
ROpenSession(p) ==
    /\ racePc[p] \in {"c_open", "s_open"}
    /\ \E t \in Now(clock) :
         /\ clock' = t
         /\ raceData' = [raceData EXCEPT ![p] =
                IF racePc[p] = "c_open" THEN NewSessionData(raceSid[p], t)
                ELSE DataToSave(p, t)]
    /\ sessionFiles' = WriteFile(sessionFiles, raceSid[p],
                                 NewSessionData(raceSid[p], 0))
    /\ partial' = partial \cup {raceSid[p]}
    /\ Goto(p, IF racePc[p] = "c_open" THEN "c_dump" ELSE "s_dump")
    /\ UNCHANGED <<sessionsIndex, raceSid, raceIndex, clobbered,
                   overlap, raceOthers>>

\* memory.py:61 / 100  json.dump(session_data, f) and close
RDumpSession(p) ==
    /\ racePc[p] \in {"c_dump", "s_dump"}
    /\ \/ /\ sessionFiles' = WriteFile(sessionFiles, raceSid[p], raceData[p])
          /\ partial' = partial \ {raceSid[p]}
       \/ /\ clobbered[p]
          /\ partial' = partial \cup {raceSid[p]}
          /\ UNCHANGED sessionFiles
    /\ ClobberOther(p, raceSid[p])
    /\ Goto(p, IF racePc[p] = "c_dump" THEN "c_ixload" ELSE "s_ixload")
    /\ UNCHANGED <<sessionsIndex, clock, raceSid, raceData, raceIndex,
                   overlap, raceOthers>>

\* memory.py:66 / 103  index = load_sessions_index()
RLoadIndex(p) ==
    /\ racePc[p] \in {"c_ixload", "s_ixload"}
    /\ raceIndex' = [raceIndex EXCEPT ![p] = load_sessions_index_racy]
    /\ Goto(p, IF racePc[p] = "c_ixload" THEN "c_ixopen" ELSE "s_ixopen")
    /\ UNCHANGED <<sessionFiles, sessionsIndex, clock, raceSid, raceData,
                   partial, clobbered, overlap, raceOthers>>

\* memory.py:67-71 / 104-108 and 40  index[session_id] = {...}; open(index, "w")
ROpenIndex(p) ==
    /\ racePc[p] \in {"c_ixopen", "s_ixopen"}
    /\ raceIndex' = [raceIndex EXCEPT ![p] =
           IndexSet(@, raceSid[p], raceData[p].created_at,
                    raceData[p].updated_at, Len(raceData[p].messages))]
    /\ partial' = partial \cup {IndexFile}
    /\ Goto(p, IF racePc[p] = "c_ixopen" THEN "c_ixdump" ELSE "s_ixdump")
    /\ UNCHANGED <<sessionFiles, sessionsIndex, clock, raceSid, raceData,
                   clobbered, overlap, raceOthers>>

\* memory.py:41  json.dump(index, f) and close
RDumpIndex(p) ==
    /\ racePc[p] \in {"c_ixdump", "s_ixdump"}
    /\ \/ /\ sessionsIndex' = raceIndex[p]
          /\ partial' = partial \ {IndexFile}
       \/ /\ clobbered[p]
          /\ partial' = partial \cup {IndexFile}
          /\ UNCHANGED sessionsIndex
    /\ ClobberOther(p, IndexFile)
    /\ Goto(p, IF racePc[p] = "c_ixdump" THEN "s_open" ELSE "done")
    /\ UNCHANGED <<sessionFiles, clock, raceSid, raceData, raceIndex,
                   overlap, raceOthers>>

RaceNext ==
    \E p \in Threads :
        \/ RLoad(p)
        \/ ROpenSession(p)
        \/ RDumpSession(p)
        \/ RLoadIndex(p)
        \/ ROpenIndex(p)
        \/ RDumpIndex(p)

SpecRace == RaceInit /\ [][RaceNext]_vars

RaceDone == \A p \in Threads : racePc[p] = "done"

HoldsExchange(msgs, p) ==
    \E i \in 1..Len(msgs) : msgs[i].message = RaceExchange(p)[1]

\* C4: two log_interaction calls for one session id, each of which loaded
\* the session before the other had saved it, never leave both interactions
\* in the session file, and both calls return normally.
C4_OverlappingCallsLoseOne ==
    (RaceDone /\ overlap /\ raceSid[1] = raceSid[2])
        => \E p \in Threads :
               ~HoldsExchange(load_session_racy(raceSid[1]).messages, p)

C4_Witness ==
    /\ RaceDone /\ overlap /\ raceSid[1] = "s1" /\ raceSid[2] = "s1"
    /\ "s1" \notin partial
    /\ Exchanges(sessionFiles["s1"].messages)
           = Flatten(<<BaseExchange, RaceExchange(2)>>)

\* ------------------------------------- the chat handlers, one at a time
\* src/src/main.py.  Each action is one request served from start to end.
\* The history variables record how the request started: the chat history
\* of the executor get_agent returned and the exchanges logged before.
LoggedSoFar(sid) == IF sid \in StoreIds THEN Flatten(logged[sid]) ELSE <<>>

Run(kind, sid, history) ==
    [kind |-> kind, session_id |-> sid, history |-> history,
     logged |-> LoggedSoFar(sid), afterReset |-> sinceReset]

Got(sid, e) == <<got[2], [session_id |-> sid, executor |-> e]>>

NoteLogged(u, a, sid) ==
    logged' = IF Truthy(sid) THEN [logged EXCEPT ![sid] = Append(@, <<u, a>>)]
              ELSE logged

RoomToLog(sid) == Truthy(sid) => StoredMessages(sessionFiles) + 2 <= MaxMsgs

\* the chat claims read no timestamp: the clock stands still here
ChatNow == {clock}

ChatInit ==
    /\ sessionFiles = NoFiles
    /\ sessionsIndex = <<>>
    /\ clock = 0
    /\ HistParked
    /\ RaceParked
    /\ StreamParked
    /\ RestParked
    /\ agentCache = [k \in {} |-> 0]
    /\ execMemory = <<>>
    /\ legacyHistory \in BOOLEAN
    /\ lastRun = NoRun
    /\ sinceReset = FALSE
    /\ got = <<NoGot, NoGot>>

\* main.py:369-379 and 581-599: get_agent is called for the session id of
\* the request (the enable_web_search keyword of the call is not a parameter
\* of agent.py's get_agent and plays no part here); the agent answers u with
\* a; the executor's
\* memory saves the exchange (AgentExecutor.invoke) and log_interaction
\* stores it.  viaChatBuildFlow: POST /chat with build_flow_mode set, which
\* skips the routing test.
ChatAgent(sid, u, a, viaChatBuildFlow) ==
    /\ viaChatBuildFlow
       \/ is_activepieces_query(u, _get_recent_history_messages(sessionFiles, sid))
    /\ RoomToLog(sid)
    /\ _make_cache_key(TRUE, sid) \notin DOMAIN agentCache
           => Len(execMemory) < MaxExec
    /\ \E t \in ChatNow :
         LET g == get_agent(agentCache, execMemory, CurStore, sid, TRUE, t)
             e == g.executor
         IN /\ Len(g.memory[e]) <= MaxMemory
            /\ agentCache' = g.cache
            /\ execMemory' = [g.memory EXCEPT ![e] =
                   @ \o Flatten(<<<<u, a>>>>)]
            /\ SetStore(log_interaction(g.store, u, a, sid, t))
            /\ lastRun' = Run("agent", sid, g.memory[e])
            /\ clock' = t
    /\ NoteLogged(u, a, sid)
    /\ sinceReset' = FALSE
    /\ UNCHANGED <<lastOp, legacyHistory, got, chatOthers>>

\* main.py:381-386 and 605-612: agent.invoke raises; nothing is logged
ChatAgentFails(sid, u, viaChatBuildFlow) ==
    /\ viaChatBuildFlow
       \/ is_activepieces_query(u, _get_recent_history_messages(sessionFiles, sid))
    /\ _make_cache_key(TRUE, sid) \notin DOMAIN agentCache
           => Len(execMemory) < MaxExec
    /\ \E t \in ChatNow :
         LET g == get_agent(agentCache, execMemory, CurStore, sid, TRUE, t)
         IN /\ agentCache' = g.cache
            /\ execMemory' = g.memory
            /\ SetStore(g.store)
            /\ lastRun' = Run("agent", sid, g.memory[g.executor])
            /\ clock' = t
    /\ sinceReset' = FALSE
    /\ UNCHANGED <<logged, lastOp, legacyHistory, got, chatOthers>>

\* main.py:358-368 and 404-433: the general responder answers; its
\* create_memory call creates the session when it has no file yet
ChatGeneral(sid, u, a) ==
    /\ ~is_activepieces_query(u, _get_recent_history_messages(sessionFiles, sid))
    /\ RoomToLog(sid)
    /\ \E t \in ChatNow :
         /\ SetStore(log_interaction(create_memory(CurStore, sid, t).store,
                                     u, a, sid, t))
         /\ clock' = t
    /\ NoteLogged(u, a, sid)
    /\ lastRun' = Run("general", sid, <<>>)
    /\ sinceReset' = FALSE
    /\ UNCHANGED <<lastOp, agentCache, execMemory, legacyHistory, got, chatOthers>>

\* main.py:497-552: POST /chat/stream with build_flow_mode; the flow builder
\* answers
ChatBuildFlow(sid, u, a) ==
    /\ RoomToLog(sid)
    /\ \E t \in ChatNow :
         /\ SetStore(log_interaction(create_memory(CurStore, sid, t).store,
                                     u, a, sid, t))
         /\ clock' = t
    /\ NoteLogged(u, a, sid)
    /\ lastRun' = Run("build_flow", sid, <<>>)
    /\ sinceReset' = FALSE
    /\ UNCHANGED <<lastOp, agentCache, execMemory, legacyHistory, got, chatOthers>>

\* main.py:678-698  POST /reset: clear_history() and clear_agent_cache()
ResetConversation ==
    /\ legacyHistory' = FALSE
    /\ LET c == clear_agent_cache(agentCache, execMemory, NoSession, "None")
       IN agentCache' = c.cache /\ execMemory' = c.memory
    /\ sinceReset' = TRUE
    /\ UNCHANGED <<diskVars, histVars, lastRun, got, chatOthers>>

\* main.py:735-748  DELETE /sessions/{session_id}
DeleteSession(sid) ==
    /\ SetStore(clear_session(CurStore, sid))
    /\ LET c == clear_agent_cache(agentCache, execMemory, sid, "None")
       IN agentCache' = c.cache /\ execMemory' = c.memory
    /\ logged' = IF FileExists(sessionFiles, sid)
                 THEN [logged EXCEPT ![sid] = <<>>] ELSE logged
    /\ UNCHANGED <<clock, lastOp, legacyHistory, lastRun, sinceReset, got, chatOthers>>

ChatNext ==
    \/ \E sid \in {"s1", NoSession}, u \in Texts, a \in Texts, b \in BOOLEAN :
           ChatAgent(sid, u, a, b)
    \/ \E sid \in {"s1", NoSession}, u \in Texts, b \in BOOLEAN :
           ChatAgentFails(sid, u, b)
    \/ \E sid \in {"s1", NoSession}, u \in Texts, a \in Texts : ChatGeneral(sid, u, a)
    \/ \E sid \in {"s1", NoSession}, u \in Texts, a \in Texts : ChatBuildFlow(sid, u, a)
    \/ ResetConversation
    \/ \E sid \in StoreIds : DeleteSession(sid)

SpecChat == ChatInit /\ [][ChatNext]_vars

\* ------------------------------------------ claims about the chat handlers
RECURSIVE IsSubsequence(_, _)
IsSubsequence(part, whole) ==
    IF part = <<>> THEN TRUE
    ELSE IF whole = <<>> THEN FALSE
    ELSE IF Head(part) = Head(whole)
         THEN IsSubsequence(Tail(part), Tail(whole))
         ELSE IsSubsequence(part, Tail(whole))

CacheInit ==
    /\ sessionFiles = NoFiles
    /\ sessionsIndex = <<>>
    /\ clock = 0
    /\ HistParked
    /\ RaceParked
    /\ ChatParked
    /\ StreamParked
    /\ RestParked

\* get_agent(session_id=..., use_planning=...) called on its own
GetAgent(sid, use_planning) ==
    /\ _make_cache_key(use_planning, sid) \notin DOMAIN agentCache
           => Len(execMemory) < MaxExec
    /\ \E t \in Now(clock) :
         LET g == get_agent(agentCache, execMemory, CurStore, sid,
                            use_planning, t)
         IN /\ agentCache' = g.cache
            /\ execMemory' = g.memory
            /\ SetStore(g.store)
            /\ got' = Got(sid, g.executor)
            /\ clock' = t
    /\ UNCHANGED <<logged, lastOp, legacyHistory, lastRun, sinceReset, chatOthers>>

\* clear_agent_cache(session_id=..., use_planning=...)
ClearAgentCache(sid, mode) ==
    /\ LET c == clear_agent_cache(agentCache, execMemory, sid, mode)
       IN agentCache' = c.cache /\ execMemory' = c.memory
    /\ UNCHANGED <<diskVars, histVars, legacyHistory, lastRun, sinceReset, got,
                   chatOthers>>

CacheNext ==
    \/ \E sid \in ChatArgs, p \in BOOLEAN : GetAgent(sid, p)
    \/ \E sid \in ChatArgs, mode \in {"None", "True", "False"} :
           ClearAgentCache(sid, mode)

SpecCache == CacheInit /\ [][CacheNext]_vars

\* C10: get_agent calls with different session_id values (None being
\* different from every string) never return the same executor.
C10_DifferentIdsDifferentExecutors ==
    (got[1].executor # 0 /\ got[1].session_id # got[2].session_id)
        => got[1].executor # got[2].executor

\* --------------------------------------- one POST /chat/stream request
\* src/src/main.py:389-675.  The response generator and the run_agent thread
\* run side by side and share status_queue and cancellation_event.  The
\* queue is the part of emitted the generator has not taken yet.
StUser == IF stMode = "general" THEN "hi" ELSE "activepieces"

StReply == "hi"

Terminal(e) == e.type \in {"done", "error", "cancelled"}

Events(types) == [i \in 1..Len(types) |-> Event(types[i])]

Put(types) == emitted' = emitted \o Events(types)

QueueEmpty == taken = Len(emitted)

\* the hooks that call _check_cancellation
CheckingHooks == {"on_llm_start", "on_agent_action", "on_tool_start",
                  "on_tool_end"}

\* the order in which AgentExecutor fires the hooks of one run
NextStages(h) ==
    CASE h = "on_llm_start" -> {"on_llm_end"}
      [] h = "on_llm_end" -> {"on_agent_action", "on_agent_finish"}
      [] h = "on_agent_action" -> {"on_tool_start"}
      [] h = "on_tool_start" -> {"on_tool_end"}
      [] h = "on_tool_end" -> {"on_llm_start"}
      [] OTHER -> {"returned"}

\* what a hook puts on the queue when it does not raise
HookEvents(h) ==
    CASE h = "on_llm_start" -> <<"action_log">>
      [] h = "on_agent_action" -> <<"action_log", "status">>
      [] h = "on_tool_end" -> <<"action_log_update", "status">>
      [] OTHER -> <<>>

StreamInit ==
    /\ clock = 0
    /\ \E withBase \in BOOLEAN :
         LET st == IF withBase
                   THEN log_interaction(Store(NoFiles, <<>>), BaseExchange[1],
                                        BaseExchange[2], "s1", 0)
                   ELSE Store(NoFiles, <<>>)
         IN sessionFiles = st.files /\ sessionsIndex = st.index
    /\ HistParked
    /\ RaceParked
    /\ ChatParked
    /\ RestParked
    /\ stMode \in {"general", "agent", "build_flow"}
    /\ stSid \in {"s1", NoSession}
    /\ genPc = IF stMode = "general" THEN "g_status" ELSE "check"
    /\ workerPc = IF stMode = "general" THEN "finished" ELSE "w_start"
    /\ threadAlive = (stMode # "general")
    /\ stage = "returned"
    /\ toolCalls = 0
    /\ timed = FALSE
    /\ emitted = <<>>
    /\ taken = 0
    /\ update = Event("none")
    /\ frames = <<>>
    /\ cancellationEvent = FALSE
    /\ connected = TRUE
    /\ logCalls = 0
    /\ hookRaised = FALSE

WGoto(label) == workerPc' = label

genSide == <<genPc, taken, update, frames, connected>>

\* main.py:555-578  the four opening events of the agent branch
WStartAgent ==
    /\ workerPc = "w_start" /\ stMode = "agent"
    /\ Put(<<"action_log", "status", "action_log", "status">>)
    /\ WGoto("w_get_agent")
    /\ UNCHANGED <<diskVars, agentCache, execMemory, stMode, stSid, threadAlive,
                   stage, toolCalls, timed, cancellationEvent, logCalls,
                   hookRaised, genSide, streamOthers>>

\* main.py:505-522  the opening events of the flow builder branch and
\* create_memory(session_id=user_session_id)
WStartFlow ==
    /\ workerPc = "w_start" /\ stMode = "build_flow"
    /\ Put(<<"action_log", "status">>)
    /\ SetStore(create_memory(CurStore, stSid, clock).store)
    /\ WGoto("w_flow")
    /\ UNCHANGED <<clock, agentCache, execMemory, stMode, stSid, threadAlive,
                   stage, toolCalls, timed, cancellationEvent, logCalls,
                   hookRaised, genSide, streamOthers>>

\* main.py:581  agent = get_agent(...): an executor, or an exception
WGetAgent ==
    /\ workerPc = "w_get_agent"
    /\ \/ LET g == get_agent(agentCache, execMemory, CurStore, stSid, TRUE,
                             clock)
          IN /\ agentCache' = g.cache
             /\ execMemory' = g.memory
             /\ SetStore(g.store)
             /\ stage' = "on_llm_start"
             /\ WGoto("w_invoke")
       \/ /\ WGoto("w_except")
          /\ UNCHANGED <<sessionFiles, sessionsIndex, agentCache, execMemory,
                         stage>>
    /\ UNCHANGED <<clock, stMode, stSid, threadAlive, toolCalls, timed, emitted,
                   cancellationEvent, logCalls, hookRaised, genSide,
                   streamOthers>>

\* main.py:141-263  a hook that checks cancellation_event and finds it clear
WHook ==
    /\ workerPc = "w_invoke" /\ stage \in CheckingHooks
    /\ ~cancellationEvent
    /\ Put(HookEvents(stage))
    /\ timed' = CASE stage = "on_llm_start" -> TRUE
                  [] stage = "on_agent_action" -> FALSE
                  [] OTHER -> timed
    /\ stage' \in NextStages(stage)
    /\ UNCHANGED <<diskVars, agentCache, execMemory, stMode, stSid, workerPc,
                   threadAlive, toolCalls, cancellationEvent, logCalls,
                   hookRaised, genSide, streamOthers>>

\* main.py:133-139  the hook finds cancellation_event set and raises
\* CancellationException before it puts anything; the exception leaves
\* agent.invoke
WHookRaises ==
    /\ workerPc = "w_invoke" /\ stage \in CheckingHooks
    /\ cancellationEvent
    /\ hookRaised' = TRUE
    /\ WGoto("w_cancelled")
    /\ UNCHANGED <<diskVars, agentCache, execMemory, stMode, stSid, threadAlive,
                   stage, toolCalls, timed, emitted, cancellationEvent,
                   logCalls, genSide, streamOthers>>

\* the same, but LangChain's callback manager logs the exception and goes on
\* (the handler does not set raise_error, main.py:122-131)
WHookRaisesSwallowed ==
    /\ workerPc = "w_invoke" /\ stage \in CheckingHooks
    /\ cancellationEvent
    /\ hookRaised' = TRUE
    /\ stage' \in NextStages(stage)
    /\ UNCHANGED <<diskVars, agentCache, execMemory, stMode, stSid, workerPc,
                   threadAlive, toolCalls, timed, emitted, cancellationEvent,
                   logCalls, genSide, streamOthers>>

\* main.py:265-278  on_llm_end: no check; an update if the step was timed.
\* The model then answers with a tool call, which starts another iteration
\* of the executor (toolCalls counts them), or with the final answer.
WLlmEnd ==
    /\ workerPc = "w_invoke" /\ stage = "on_llm_end"
    /\ Put(IF timed THEN <<"action_log_update">> ELSE <<>>)
    /\ \E nxt \in NextStages(stage) :
         /\ nxt = "on_agent_action" => toolCalls < MaxEvents
         /\ stage' = nxt
         /\ toolCalls' = IF nxt = "on_agent_action" THEN toolCalls + 1
                         ELSE toolCalls
    /\ UNCHANGED <<diskVars, agentCache, execMemory, stMode, stSid, workerPc,
                   threadAlive, timed, cancellationEvent, logCalls,
                   hookRaised, genSide, streamOthers>>

\* main.py:280-298  on_agent_finish: no exception; silent once cancelled
WAgentFinish ==
    /\ workerPc = "w_invoke" /\ stage = "on_agent_finish"
    /\ Put(IF cancellationEvent THEN <<>> ELSE <<"action_log", "status">>)
    /\ stage' = "returned"
    /\ UNCHANGED <<diskVars, agentCache, execMemory, stMode, stSid, workerPc,
                   threadAlive, toolCalls, timed, cancellationEvent, logCalls,
                   hookRaised, genSide, streamOthers>>

\* main.py:584  agent.invoke raises (model or tool error, time limit)
WInvokeRaises ==
    /\ workerPc = "w_invoke" /\ stage # "returned"
    /\ WGoto("w_except")
    /\ UNCHANGED <<diskVars, agentCache, execMemory, stMode, stSid, threadAlive,
                   stage, toolCalls, timed, emitted, cancellationEvent,
                   logCalls, hookRaised, genSide, streamOthers>>

\* main.py:584-590  agent.invoke returns; the executor's memory has saved
\* the exchange (an executor dropped from the cache meanwhile is not used
\* again, and what its memory holds is of no account)
WInvokeReturns ==
    /\ workerPc = "w_invoke" /\ stage = "returned"
    /\ execMemory' =
           IF _make_cache_key(TRUE, stSid) \in DOMAIN agentCache
           THEN [execMemory EXCEPT
                    ![agentCache[_make_cache_key(TRUE, stSid)]] =
                        @ \o Flatten(<<<<StUser, StReply>>>>)]
           ELSE execMemory
    /\ WGoto("w_log")
    /\ UNCHANGED <<diskVars, agentCache, stMode, stSid, threadAlive, stage,
                   toolCalls, timed, emitted, cancellationEvent, logCalls,
                   hookRaised, genSide, streamOthers>>

\* main.py:536-543  build_flow reports progress through flow_status_callback
WFlowLog ==
    /\ workerPc = "w_flow" /\ toolCalls < MaxEvents
    /\ \E type \in {"action_log", "streaming_update"} : Put(<<type>>)
    /\ toolCalls' = toolCalls + 1
    /\ UNCHANGED <<diskVars, agentCache, execMemory, stMode, stSid, workerPc,
                   threadAlive, stage, timed, cancellationEvent, logCalls,
                   hookRaised, genSide, streamOthers>>

\* main.py:536-546  build_flow returns its guide, or raises
WFlowEnds ==
    /\ workerPc = "w_flow"
    /\ \/ WGoto("w_log")
       \/ WGoto("w_except")
    /\ UNCHANGED <<diskVars, agentCache, execMemory, stMode, stSid, threadAlive,
                   stage, toolCalls, timed, emitted, cancellationEvent,
                   logCalls, hookRaised, genSide, streamOthers>>

\* main.py:551 / 598  log_interaction(user_message, assistant_reply, ...);
\* it raises when ensure_sessions_dir cannot make the directory
\* (memory.py:19-22, outside every try)
WLog ==
    /\ workerPc = "w_log"
    /\ logCalls' = logCalls + 1
    /\ \/ /\ SetStore(log_interaction(CurStore, StUser, StReply, stSid, clock))
          /\ WGoto("w_enqueue")
       \/ /\ Truthy(stSid)
          /\ WGoto("w_except")
          /\ UNCHANGED <<sessionFiles, sessionsIndex>>
    /\ UNCHANGED <<clock, agentCache, execMemory, stMode, stSid, threadAlive,
                   stage, toolCalls, timed, emitted, cancellationEvent,
                   hookRaised, genSide, streamOthers>>

\* main.py:459-483  enqueue_reply: one done, or the chunks and a bare done
WEnqueue ==
    /\ workerPc = "w_enqueue"
    /\ \/ Put(<<"done">>)
       \/ Put(<<"chunk_start", "chunk", "chunk", "chunk", "chunk_end", "done">>)
    /\ WGoto("w_exit")
    /\ UNCHANGED <<diskVars, agentCache, execMemory, stMode, stSid, threadAlive,
                   stage, toolCalls, timed, cancellationEvent, logCalls,
                   hookRaised, genSide, streamOthers>>

\* main.py:601-603  except CancellationException
WCancelled ==
    /\ workerPc = "w_cancelled"
    /\ Put(<<"cancelled">>)
    /\ WGoto("w_exit")
    /\ UNCHANGED <<diskVars, agentCache, execMemory, stMode, stSid, threadAlive,
                   stage, toolCalls, timed, cancellationEvent, logCalls,
                   hookRaised, genSide, streamOthers>>

\* main.py:605-612  except Exception: cancelled if the text of the exception
\* mentions "cancel" or the event is set, error otherwise
WExcept ==
    /\ workerPc = "w_except"
    /\ \E mentionsCancel \in BOOLEAN :
         IF mentionsCancel \/ cancellationEvent
         THEN Put(<<"cancelled">>) ELSE Put(<<"error">>)
    /\ WGoto("w_exit")
    /\ UNCHANGED <<diskVars, agentCache, execMemory, stMode, stSid, threadAlive,
                   stage, toolCalls, timed, cancellationEvent, logCalls,
                   hookRaised, genSide, streamOthers>>

\* run_agent returns and the thread ends
WExit ==
    /\ workerPc = "w_exit"
    /\ threadAlive' = FALSE
    /\ WGoto("finished")
    /\ UNCHANGED <<diskVars, agentCache, execMemory, stMode, stSid, stage,
                   toolCalls, timed, emitted, cancellationEvent, logCalls,
                   hookRaised, genSide, streamOthers>>

workerSide == <<diskVars, agentCache, execMemory, stMode, stSid, workerPc,
                threadAlive, stage, toolCalls, timed, emitted, logCalls,
                hookRaised>>

\* main.py:622-623 / 637-639  take an update off the queue, or go to sleep
GCheck ==
    /\ genPc = "check"
    /\ IF QueueEmpty
       THEN genPc' = "sleep" /\ UNCHANGED <<taken, update>>
       ELSE /\ update' = emitted[taken + 1]
            /\ taken' = taken + 1
            /\ genPc' = "yield"
    /\ UNCHANGED <<frames, connected, cancellationEvent, workerSide,
                   streamOthers>>

\* main.py:625-636  yield the frame and stop after a terminal one; when the
\* client is gone the yield raises and the event is set
GYield ==
    /\ genPc = "yield"
    /\ IF connected
       THEN /\ frames' = Append(frames, update)
            /\ genPc' = IF Terminal(update) THEN "finally" ELSE "check"
            /\ UNCHANGED cancellationEvent
       ELSE /\ cancellationEvent' = TRUE
            /\ genPc' = "finally"
            /\ UNCHANGED frames
    /\ UNCHANGED <<taken, update, connected, workerSide, streamOthers>>

\* main.py:639-643  after the sleep: stop when the thread is dead and the
\* queue empty
GSleep ==
    /\ genPc = "sleep"
    /\ IF connected
       THEN /\ genPc' = IF ~threadAlive /\ QueueEmpty THEN "finally"
                        ELSE "check"
            /\ UNCHANGED cancellationEvent
       ELSE /\ cancellationEvent' = TRUE
            /\ genPc' = "finally"
    /\ UNCHANGED <<taken, update, frames, connected, workerSide, streamOthers>>

\* main.py:659-666  finally: the event is set whatever happened
GFinally ==
    /\ genPc = "finally"
    /\ cancellationEvent' = TRUE
    /\ genPc' = "closed"
    /\ UNCHANGED <<taken, update, frames, connected, workerSide, streamOthers>>

\* the client goes away
Disconnect ==
    /\ connected /\ genPc \notin {"closed", "crashed"}
    /\ connected' = FALSE
    /\ UNCHANGED <<genPc, taken, update, frames, cancellationEvent, workerSide,
                   streamOthers>>

\* main.py:415-420  general_event_generator yields its status frame
GGeneralStatus ==
    /\ genPc = "g_status"
    /\ IF connected
       THEN frames' = Append(frames, Event("status")) /\ genPc' = "g_respond"
       ELSE genPc' = "closed" /\ UNCHANGED frames
    /\ UNCHANGED <<taken, update, connected, cancellationEvent, workerSide,
                   streamOthers>>

\* main.py:422-425  generate_general_response, whose create_memory call
\* creates the session; an exception becomes the text of the reply
GGeneralRespond ==
    /\ genPc = "g_respond"
    /\ SetStore(create_memory(CurStore, stSid, clock).store)
    /\ genPc' = "g_log"
    /\ UNCHANGED <<clock, agentCache, execMemory, stMode, stSid, workerPc,
                   threadAlive, stage, toolCalls, timed, emitted, logCalls,
                   hookRaised, taken, update, frames, connected,
                   cancellationEvent, streamOthers>>

\* main.py:427  log_interaction, outside the try: when it raises the
\* generator ends there
GGeneralLog ==
    /\ genPc = "g_log"
    /\ logCalls' = logCalls + 1
    /\ \/ /\ SetStore(log_interaction(CurStore, StUser, StReply, stSid, clock))
          /\ genPc' = "g_done"
       \/ /\ Truthy(stSid)
          /\ genPc' = "crashed"
          /\ UNCHANGED <<sessionFiles, sessionsIndex>>
    /\ UNCHANGED <<clock, agentCache, execMemory, stMode, stSid, workerPc,
                   threadAlive, stage, toolCalls, timed, emitted, hookRaised,
                   taken, update, frames, connected, cancellationEvent,
                   streamOthers>>

\* main.py:432-433  general_event_generator yields done
GGeneralDone ==
    /\ genPc = "g_done"
    /\ frames' = IF connected THEN Append(frames, Event("done")) ELSE frames
    /\ genPc' = "closed"
    /\ UNCHANGED <<taken, update, connected, cancellationEvent, workerSide,
                   streamOthers>>

StreamNext ==
    \/ WStartAgent
    \/ WStartFlow
    \/ WGetAgent
    \/ WHook
    \/ WHookRaises
    \/ WHookRaisesSwallowed
    \/ WLlmEnd
    \/ WAgentFinish
    \/ WInvokeRaises
    \/ WInvokeReturns
    \/ WFlowLog
    \/ WFlowEnds
    \/ WLog
    \/ WEnqueue
    \/ WCancelled
    \/ WExcept
    \/ WExit
    \/ GCheck
    \/ GYield
    \/ GSleep
    \/ GFinally
    \/ Disconnect
    \/ GGeneralStatus
    \/ GGeneralRespond
    \/ GGeneralLog
    \/ GGeneralDone

SpecStream == StreamInit /\ [][StreamNext]_vars

\* ------------------------------------ claims about the streamed request
Count(events, type) ==
    Cardinality({i \in 1..Len(events) : events[i].type = type})

TerminalFrames == {i \in 1..Len(frames) : Terminal(frames[i])}

\* C1: a /chat/stream response whose client stayed connected has ended with
\* exactly one terminal event (done, error or cancelled), sent as its last
\* frame, on the general, the agent and the flow builder path.
C1_StreamEndsWithOneTerminal ==
    (genPc \in {"closed", "crashed"} /\ connected)
        => TerminalFrames = {Len(frames)} /\ frames # <<>>

Queries == SeqsUpTo(Words, MaxTokens)

\* the same question sent again: as it was, in capitals, or after a blank
Reworded(q) ==
    {q, [i \in 1..Len(q) |-> IF q[i] = "is" THEN "IS" ELSE q[i]],
     <<" ">> \o q}

PlannerInit ==
    /\ sessionFiles = NoFiles
    /\ sessionsIndex = <<>>
    /\ clock = 0
    /\ HistParked
    /\ RaceParked
    /\ ChatParked
    /\ StreamParked
    /\ RestParked

Analyze(q, reply) ==
    LET r == analyze_query(planCache, q, reply)
    IN /\ planCache' = r.cache
       /\ planQuery' = q
       /\ planResult' = r.result
       /\ llmCalls' = r.llm
       /\ planHit' = r.hit
       /\ planCalls' = planCalls + 1

plannerOthers == <<diskVars, histVars, raceOnlyVars, chatOnlyVars,
                   streamOnlyVars, planRunVars, flowVars, toolVars>>

\* planner.analyze_query(user_query) on the fresh planner
AnalyzeQuery(q, reply) ==
    /\ planCalls = 0
    /\ Analyze(q, reply)
    /\ UNCHANGED plannerOthers

\* a later call, with the question of the call before it or with "slack"
AnalyzeAgain(q, reply) ==
    /\ planCalls \in 1..(MaxPlanCalls - 1)
    /\ Analyze(q, reply)
    /\ UNCHANGED plannerOthers

PlannerNext ==
    \/ \E q \in Queries, reply \in LlmReplies : AnalyzeQuery(q, reply)
    \/ \E q \in Reworded(planQuery) \cup {<<"slack">>}, reply \in LlmReplies :
           AnalyzeAgain(q, reply)

SpecPlanner == PlannerInit /\ [][PlannerNext]_vars

\* -------------------------------------------- claims about the planner
SimplePlanReturned ==
    /\ planResult.query_type = "simple_check"
    /\ planResult.recommended_tools = <<"check_activepieces">>
    /\ planResult.max_tool_calls = 1
    /\ {"query_type", "recommended_tools", "max_tool_calls"}
           \subseteq planResult.keys

\* C11: for a non-empty query of at most 140 characters that
\* _looks_like_simple_lookup accepts (as analyze_query applies it, to the
\* stripped query in lower case), analyze_query returns the simple_check
\* plan with the single tool check_activepieces and max_tool_calls 1, and
\* calls no LLM.
C11_SimpleLookupGetsFixedPlan ==
    (/\ planCalls > 0
     /\ Strip(planQuery) # <<>>
     /\ StrLen(planQuery) <= MAX_SIMPLE_LOOKUP_LENGTH
     /\ _looks_like_simple_lookup(Lower(Strip(planQuery))))
        => SimplePlanReturned /\ llmCalls = 0

C11_Witness ==
    /\ planCalls = 2
    /\ planHit
    /\ planQuery = <<" ", "IS", " ", "slack">>
    /\ SimplePlanReturned
    /\ llmCalls = 0

\* C12: for a query of at most 260 characters that holds a detail keyword
\* and an action term, analyze_query returns the configuration plan with the
\* single tool search_activepieces_docs and max_tool_calls 1, and calls no
\* LLM.
C12_ConfigurationGetsFixedPlan ==
    (/\ planCalls > 0
     /\ Strip(planQuery) # <<>>
     /\ _looks_like_detail_lookup(Lower(Strip(planQuery))))
        => /\ planResult.query_type = "configuration"
           /\ planResult.recommended_tools = <<"search_activepieces_docs">>
           /\ planResult.max_tool_calls = 1
           /\ llmCalls = 0

\* C13: analyze_query returns a dictionary that has the keys intent,
\* query_type, action_plan, recommended_tools and context, whatever the
\* query and whatever the LLM answered.
C13_PlanHasDocumentedKeys ==
    planCalls > 0
        => {"intent", "query_type", "action_plan", "recommended_tools",
            "context"} \subseteq planResult.keys

\* ------------------------------------------------ run_agent_with_planning
\* src/src/agent.py:308-341: the planner's plan is formatted into the
\* input of agent_executor.invoke; the executor then loops, each iteration
\* being a tool call the model asks for, until the model answers or the
\* executor's limits end the run.
RunQueries == {<<"is", " ", "slack", "?">>, <<"input", "step", LongWord>>,
               <<"slack">>}

RunInit == PlannerInit

runOthers == <<diskVars, histVars, raceOnlyVars, chatOnlyVars, streamOnlyVars,
               flowVars, toolVars>>

\* agent.py:323-329  create_guided_input and the start of invoke
RunStart(q, reply) ==
    /\ runPc = "idle"
    /\ Analyze(q, reply)
    /\ runInput' = create_guided_input(analyze_query(planCache, q, reply).result,
                                       q).enhanced_input
    /\ runPc' = "running"
    /\ UNCHANGED <<iterations, runToolCalls, timeUp, runOthers>>

\* one iteration: the model asks for a tool and the executor calls it
RunToolCall ==
    /\ runPc = "running"
    /\ _should_continue(iterations, timeUp, runToolCalls, runInput)
    /\ iterations' = iterations + 1
    /\ runToolCalls' = runToolCalls + 1
    /\ UNCHANGED <<runPc, runInput, timeUp, plannerVars, runOthers>>

\* the model gives its final answer
RunFinish ==
    /\ runPc = "running"
    /\ _should_continue(iterations, timeUp, runToolCalls, runInput)
    /\ runPc' = "finished"
    /\ UNCHANGED <<runInput, iterations, runToolCalls, timeUp, plannerVars,
                   runOthers>>

\* max_execution_time seconds have passed
RunTimeUp ==
    /\ runPc = "running" /\ ~timeUp
    /\ timeUp' = TRUE
    /\ UNCHANGED <<runPc, runInput, iterations, runToolCalls, plannerVars,
                   runOthers>>

\* the executor ends the run: "Agent stopped due to iteration limit or time
\* limit."
RunStopped ==
    /\ runPc = "running"
    /\ ~_should_continue(iterations, timeUp, runToolCalls, runInput)
    /\ runPc' = "stopped"
    /\ UNCHANGED <<runInput, iterations, runToolCalls, timeUp, plannerVars,
                   runOthers>>

RunNext ==
    \/ \E q \in RunQueries, reply \in LlmReplies : RunStart(q, reply)
    \/ RunToolCall
    \/ RunFinish
    \/ RunTimeUp
    \/ RunStopped

SpecPlanRun == RunInit /\ [][RunNext]_vars

\* C14: the plan reaches the executor only as text of its input; a run the
\* executor stops has used up max_iterations or max_execution_time, and as
\* long as neither limit is reached a further tool call can be made, however
\* many the plan allowed.
C14_OnlyExecutorLimitsStopRun ==
    /\ runPc # "idle"
           => runInput.plan_context = format_plan_for_agent(planResult)
    /\ runPc = "stopped" => iterations = max_iterations \/ timeUp
    /\ (runPc = "running" /\ iterations < max_iterations /\ ~timeUp)
           => ENABLED RunToolCall

C14_Witness ==
    /\ runPc = "finished"
    /\ runInput.plan_context.max_tool_calls = 1
    /\ runToolCalls > 1

\* ------------------------------------- a request and its web search flag
\* build_flow (src/src/flow_builder.py:1451-1526) step by step, and an agent
\* run with the tools of get_all_tools (src/src/tools.py:1069-1179).
FlowInit ==
    /\ sessionFiles = NoFiles
    /\ sessionsIndex = <<>>
    /\ clock = 0
    /\ HistParked
    /\ RaceParked
    /\ ChatParked
    /\ StreamParked
    /\ PlannerParked
    /\ PlanRunParked
    /\ ToolParked
    /\ flWeb \in BOOLEAN
    /\ flMode \in {"build_flow", "agent"}
    /\ flPc = IF flMode = "build_flow" THEN "analyze" ELSE "agent"
    /\ flAnalysis = NoAnalysis
    /\ flMissing = 0
    /\ flHttp = FALSE
    /\ flGuide = ""
    /\ flResult = NoFlowResult
    /\ flTools = 0
    /\ providerCalls = 0

flowOthers == <<diskVars, histVars, raceOnlyVars, chatOnlyVars, streamOnlyVars,
                plannerVars, planRunVars, toolVars>>

\* flow_builder.py:1492  analysis = builder.analyze_flow_request(user_request)
FlowAnalyze(reply) ==
    /\ flPc = "analyze"
    /\ flAnalysis' = analyze_flow_request(reply)
    /\ flPc' = "search"
    /\ UNCHANGED <<flWeb, flMode, flMissing, flHttp, flGuide, flResult, flTools,
                   providerCalls, flowOthers>>

\* flow_builder.py:1495  components = builder.search_flow_components(analysis)
FlowSearch(missing, needs_http_fallback) ==
    /\ flPc = "search"
    /\ flMissing' = missing
    /\ flHttp' = needs_http_fallback
    /\ flPc' = "context"
    /\ UNCHANGED <<flWeb, flMode, flAnalysis, flGuide, flResult, flTools,
                   providerCalls, flowOthers>>

\* flow_builder.py:1080-1087  the HTTP Request documentation, and
\* 1212-1221  sub-step 8, the web search for missing information
FlowResearch ==
    /\ flPc = "context"
    /\ providerCalls' = providerCalls
         + (IF flHttp THEN _latest_http_request_docs(flWeb) ELSE 0)
         + (IF flWeb /\ (flMissing > 0 \/ flAnalysis.confidence = "low")
            THEN _search_for_missing_info(flWeb, flAnalysis, flMissing)
            ELSE 0)
    /\ flPc' = "stream"
    /\ UNCHANGED <<flWeb, flMode, flAnalysis, flMissing, flHttp, flGuide,
                   flResult, flTools, flowOthers>>

\* flow_builder.py:1286-1329  responses.stream: the streamed text, stripped,
\* or an exception
FlowStream ==
    /\ flPc = "stream"
    /\ \/ \E text \in ModelTexts :
            flGuide' = StripText(text) /\ flPc' = "return"
       \/ flPc' = "create" /\ UNCHANGED flGuide
    /\ UNCHANGED <<flWeb, flMode, flAnalysis, flMissing, flHttp, flResult,
                   flTools, providerCalls, flowOthers>>

\* flow_builder.py:1331-1340  the non-streaming call after a failed stream;
\* 1364-1366  its exception ends in _create_basic_plan
FlowCreate ==
    /\ flPc = "create"
    /\ \/ \E text \in ModelTexts : flGuide' = StripText(text)
       \/ flGuide' = _create_basic_plan
    /\ flPc' = "return"
    /\ UNCHANGED <<flWeb, flMode, flAnalysis, flMissing, flHttp, flResult,
                   flTools, providerCalls, flowOthers>>

\* flow_builder.py:1517-1526  the dictionary build_flow returns
FlowReturn ==
    /\ flPc = "return"
    /\ flResult' = [keys |-> {"guide", "analysis", "components", "models_used"},
                    guide |-> flGuide, analysis |-> flAnalysis]
    /\ flPc' = "returned"
    /\ UNCHANGED <<flWeb, flMode, flAnalysis, flMissing, flHttp, flGuide,
                   flTools, providerCalls, flowOthers>>

\* the agent calls one of its tools; web_search_tool calls web_search, which
\* calls the provider (tools.py:738-757)
AgentCallsTool(i) ==
    /\ flPc = "agent"
    /\ flTools < MaxEvents
    /\ flTools' = flTools + 1
    /\ providerCalls' = providerCalls
         + (IF get_all_tools[i] = "web_search_tool" THEN 1 ELSE 0)
    /\ UNCHANGED <<flWeb, flMode, flPc, flAnalysis, flMissing, flHttp, flGuide,
                   flResult, flowOthers>>

\* the agent answers
AgentAnswers ==
    /\ flPc = "agent"
    /\ flPc' = "returned"
    /\ UNCHANGED <<flWeb, flMode, flAnalysis, flMissing, flHttp, flGuide,
                   flResult, flTools, providerCalls, flowOthers>>

FlowNext ==
    \/ \E reply \in AnalysisReplies : FlowAnalyze(reply)
    \/ \E missing \in 0..2, h \in BOOLEAN : FlowSearch(missing, h)
    \/ FlowResearch
    \/ FlowStream
    \/ FlowCreate
    \/ FlowReturn
    \/ \E i \in 1..Len(get_all_tools) : AgentCallsTool(i)
    \/ AgentAnswers

SpecFlow == FlowInit /\ [][FlowNext]_vars

C18_GuideNeverEmpty ==
    (flMode = "build_flow" /\ flPc = "returned")
        => {"guide", "analysis"} \subseteq flResult.keys /\ flResult.guide # ""

\* C19: analyze_flow_request returns a dictionary (not None) that has the key
\* flow_goal, whatever the request and whatever the LLM answered.
C19_AnalysisHasFlowGoal ==
    (flMode = "build_flow" /\ flPc # "analyze")
        => ~flAnalysis.none /\ "flow_goal" \in flAnalysis.keys

\* ------------------------------------------------- find_piece_by_name
\* src/src/tools.py:95-127 on a pieces table that does not change.
PieceNames ==
    {<<"google", "-", "sheets">>, <<"Google", " ", "Sheets">>,
     <<" ", "SLACK", " ">>, <<"Slack">>, <<"slac">>, <<"sheets">>,
     <<"Google">>, <<"google", "-", "drive">>, <<"google", " ", "drive">>,
     <<"files">>}

PieceInit ==
    /\ sessionFiles = NoFiles
    /\ sessionsIndex = <<>>
    /\ clock = 0
    /\ HistParked
    /\ RaceParked
    /\ ChatParked
    /\ StreamParked
    /\ PlannerParked
    /\ PlanRunParked
    /\ FlowParked
    /\ DocParked
    /\ GuideParked
    /\ LateParked
    /\ pcCatalogue \in Catalogues
    /\ pcQuery = <<>>
    /\ pcResult = NoPiece
    /\ pcCalled = FALSE

pieceOthers == <<diskVars, histVars, raceOnlyVars, chatOnlyVars,
                 streamOnlyVars, plannerVars, planRunVars, flowVars, docVars,
                 guideVars, lateVars>>

\* find_piece_by_name(name)
FindPiece(name) ==
    /\ pcQuery' = name
    /\ pcResult' = find_piece_by_name(pcCatalogue, name)
    /\ pcCalled' = TRUE
    /\ UNCHANGED <<pcCatalogue, pieceOthers>>

PieceNext == \E name \in PieceNames : FindPiece(name)

SpecPieces == PieceInit /\ [][PieceNext]_vars

\* one word is part of the other
WordWithin(a, b) == a = b \/ (a = "slac" /\ b = "slack")

\* text a is a substring of text b
Within(a, b) ==
    \E i \in 0..(Len(b) - Len(a)) :
        \A j \in 1..Len(a) : WordWithin(a[j], b[i + j])

\* the rows whose name or display name is q, case ignored
ExactRows(catalogue, q) ==
    {i \in 1..Len(catalogue) :
        \/ PieceLower(catalogue[i].name) = q
        \/ PieceLower(catalogue[i].display_name) = q}

\* the rows whose name or display name holds q, case ignored
PartialRows(catalogue, q) ==
    {i \in 1..Len(catalogue) :
        \/ Within(q, PieceLower(catalogue[i].name))
        \/ Within(q, PieceLower(catalogue[i].display_name))}

\* C16: find_piece_by_name(q) returns a piece whose name or display name is q
\* (case ignored) whenever there is one; only when there is none it returns
\* the first piece whose name or display name holds q; and None when there
\* is no such piece either.
C16_ExactThenPartialMatch ==
    pcCalled =>
        LET q == Strip(PieceLower(pcQuery))
            exact == ExactRows(pcCatalogue, q)
            holding == PartialRows(pcCatalogue, q)
        IN IF exact # {} THEN \E i \in exact : pcResult = pcCatalogue[i]
           ELSE IF holding # {}
                THEN pcResult =
                       pcCatalogue[CHOOSE i \in holding :
                                       \A j \in holding : i <= j]
           ELSE pcResult = NoPiece

\* ------------------------------------------- search_activepieces_docs
\* src/src/tools.py:658-735: one call, stepped through its loop over the
\* query variants; what the vector store returns is chosen freely.
DocQueries ==
    {<<>>, <<" ">>, <<"slack">>, <<" ", "Slack", " ", " ", "files">>,
     <<"list", " ", "pieces">>, <<"ActivePieces">>}

DocInit ==
    /\ sessionFiles = NoFiles
    /\ sessionsIndex = <<>>
    /\ clock = 0
    /\ HistParked
    /\ RaceParked
    /\ ChatParked
    /\ StreamParked
    /\ PlannerParked
    /\ PlanRunParked
    /\ FlowParked
    /\ PieceParked
    /\ GuideParked
    /\ LateParked
    /\ dsEnv \in [DOC_SEARCH_PER_VARIANT : {"unset", "1"},
                  DOC_SEARCH_MAX_RESULTS : EnvValues]
    /\ dsQuery = <<>>
    /\ dsPc = "idle"
    /\ dsVariant = 0
    /\ aggregated = <<>>
    /\ dsSeen = {}
    /\ dsResult = <<>>

docOthers == <<diskVars, histVars, raceOnlyVars, chatOnlyVars, streamOnlyVars,
               plannerVars, planRunVars, flowVars, pieceVars, guideVars,
               lateVars>>

query_variants == generate_query_variants(normalize_query(dsQuery))

\* tools.py:670-672  normalize_query; nothing to search for
DocNoQuery(query) ==
    /\ dsPc = "idle"
    /\ normalize_query(query) = <<>>
    /\ dsQuery' = query
    /\ dsPc' = "returned"
    /\ UNCHANGED <<dsEnv, dsVariant, aggregated, dsSeen, dsResult, docOthers>>

\* tools.py:670-688  up to generate_query_variants
DocStart(query) ==
    /\ dsPc = "idle"
    /\ normalize_query(query) # <<>>
    /\ dsQuery' = query
    /\ dsPc' = "searching"
    /\ UNCHANGED <<dsEnv, dsVariant, aggregated, dsSeen, dsResult, docOthers>>

\* tools.py:692-710  one turn of the loop over query_variants
DocVariant(hits) ==
    /\ dsPc = "searching"
    /\ dsVariant < Len(query_variants)
    /\ dsVariant' = dsVariant + 1
    /\ aggregated' = AggregateAll(aggregated, hits, dsVariant + 1)
    /\ dsSeen' = dsSeen \cup {<<DocKey(hits[i][1]), hits[i][2]>> :
                                 i \in 1..Len(hits)}
    /\ UNCHANGED <<dsEnv, dsQuery, dsPc, dsResult, docOthers>>

\* tools.py:734-735  the vector store raised: an error text is returned
DocRaise ==
    /\ dsPc = "searching"
    /\ dsVariant < Len(query_variants)
    /\ dsPc' = "failed"
    /\ UNCHANGED <<dsEnv, dsQuery, dsVariant, aggregated, dsSeen, dsResult,
                   docOthers>>

\* tools.py:712-732  rank, cut and render
DocReturn ==
    /\ dsPc = "searching"
    /\ dsVariant = Len(query_variants)
    /\ dsResult' = ranked_results(aggregated, dsEnv)
    /\ dsPc' = "returned"
    /\ UNCHANGED <<dsEnv, dsQuery, dsVariant, aggregated, dsSeen, docOthers>>

DocNext ==
    \/ \E query \in DocQueries : DocNoQuery(query) \/ DocStart(query)
    \/ \E hits \in HitLists(per_variant_k(dsEnv)) : DocVariant(hits)
    \/ DocRaise
    \/ DocReturn

SpecDocs == DocInit /\ [][DocNext]_vars

SeenKeys == {h[1] : h \in dsSeen}

\* the lowest score a document got from the searches of all variants
LowestScore(key) ==
    CHOOSE s \in Scores :
        <<key, s>> \in dsSeen /\ \A h \in dsSeen : h[1] = key => s <= h[2]

\* the results are the best documents, best first, each once and with its
\* lowest score
RankedAndMerged ==
    /\ \A i, j \in 1..Len(dsResult) : i < j =>
           /\ dsResult[i].score <= dsResult[j].score
           /\ DocKey(dsResult[i].doc) # DocKey(dsResult[j].doc)
    /\ \A i \in 1..Len(dsResult) :
           /\ DocKey(dsResult[i].doc) \in SeenKeys
           /\ dsResult[i].score = LowestScore(DocKey(dsResult[i].doc))
    /\ \A key \in SeenKeys :
           \/ \E i \in 1..Len(dsResult) : DocKey(dsResult[i].doc) = key
           \/ /\ dsResult # <<>>
              /\ dsResult[Len(dsResult)].score <= LowestScore(key)

\* C17 as stated: search_activepieces_docs returns DOC_SEARCH_MAX_RESULTS
\* (8 by default) results at most, by non-decreasing score, each document
\* (its source and first 200 characters) once with its lowest score.
C17_AtMostConfiguredResults ==
    dsPc = "returned" =>
        /\ Len(dsResult) <= EnvInt(dsEnv.DOC_SEARCH_MAX_RESULTS, 8)
        /\ RankedAndMerged

\* C17: search_activepieces_docs returns max(1, DOC_SEARCH_MAX_RESULTS)
\* results at most (8 when the variable is unset or not a number), the best
\* ones, by non-decreasing score, each document (its source and first 200
\* characters) once with the lowest score it got across the query variants.
C17_TopResultsMerged ==
    dsPc = "returned" =>
        /\ Len(dsResult) <= Max(1, EnvInt(dsEnv.DOC_SEARCH_MAX_RESULTS, 8))
        /\ RankedAndMerged

\* a document found with two scores, and more documents found than returned
C17_Witness ==
    /\ dsPc = "returned"
    /\ Len(dsResult) = 1
    /\ Cardinality(SeenKeys) = 2
    /\ \E h, g \in dsSeen :
           h[1] = g[1] /\ h[2] < g[2] /\ h[1] = DocKey(dsResult[1].doc)

\* --------------------------------------- get_code_generation_guidelines
\* src/src/tools.py:760-976, called with one context after another.
ContextWords ==
    {"general", "api", "API", "Api", "_", " ", "call", "CALL", "data",
     "Data", "transform", "TRANSFORM"}

Contexts == SeqsUpTo(ContextWords, MaxContext)

GuideInit ==
    /\ sessionFiles = NoFiles
    /\ sessionsIndex = <<>>
    /\ clock = 0
    /\ HistParked
    /\ RaceParked
    /\ ChatParked
    /\ StreamParked
    /\ RestParked

guideOthers == <<diskVars, histVars, raceOnlyVars, chatOnlyVars,
                 streamOnlyVars, plannerVars, planRunVars, flowVars,
                 pieceVars, docVars, lateVars>>

\* get_code_generation_guidelines(context)
GetGuidelines(context) ==
    /\ cgContext' = context
    /\ cgResult' = get_code_generation_guidelines(context)
    /\ UNCHANGED guideOthers

GuideNext == \E context \in Contexts : GetGuidelines(context)

SpecGuide == GuideInit /\ [][GuideNext]_vars

\* the spellings of one piece of text that differ in case only
Spellings(w) ==
    CASE w = "api" -> {"api", "API", "Api"}
      [] w = "call" -> {"call", "CALL"}
      [] w = "data" -> {"data", "Data"}
      [] w = "transform" -> {"transform", "TRANSFORM"}
      [] OTHER -> {w}

\* context equals text when case is ignored
EqualsIgnoringCase(context, text) ==
    /\ Len(context) = Len(text)
    /\ \A i \in 1..Len(text) : context[i] \in Spellings(text[i])

Sections(result) == {result[i] : i \in 1..Len(result)}

\* C20: get_code_generation_guidelines returns the base guidelines for every
\* context, followed by the API-call section exactly when the context is
\* 'api_call' (case ignored) and by the data-transformation section exactly
\* when it is 'data_transform' (case ignored).
C20_SectionsFollowContext ==
    cgResult # <<>> =>
        /\ cgResult[1] = base_guidelines
        /\ ApiCallSection \in Sections(cgResult)
               <=> EqualsIgnoringCase(cgContext, <<"api", "_", "call">>)
        /\ DataTransformSection \in Sections(cgResult)
               <=> EqualsIgnoringCase(cgContext, <<"data", "_", "transform">>)
        /\ Len(cgResult) = Cardinality(Sections(cgResult))
        /\ Sections(cgResult) \subseteq
               {base_guidelines, ApiCallSection, DataTransformSection}

\* 'API_CALL' got the API-call section behind the base guidelines
C20_Witness ==
    /\ cgContext = <<"API", "_", "CALL">>
    /\ cgResult = <<base_guidelines, ApiCallSection>>

\* ------------------------- more claims about one POST /chat/stream request
\* C21: once cancellation_event is set while the run_agent thread has not
\* reached log_interaction, the thread does not write the exchange to the
\* session store and does not enqueue done, in agent mode and in build-flow
\* mode alike.
C21_CancelledWorkerWritesNothing ==
    [][(cancellationEvent /\ stMode # "general" /\ logCalls = 0)
          => /\ StoredMessages(sessionFiles') = StoredMessages(sessionFiles)
             /\ Count(emitted', "done") = 0]_vars

\* ------------------- DELETE /sessions/{id} during a POST /chat/stream request
\* src/src/main.py:735-748 served while the request of the specification
\* above is in progress; lastOp remembers the delete that returned last.
StreamDeleteSession(sid) ==
    /\ SetStore(clear_session(CurStore, sid))
    /\ LET c == clear_agent_cache(agentCache, execMemory, sid, "None")
       IN agentCache' = c.cache /\ execMemory' = c.memory
    /\ lastOp' = Op("delete_session", sid)
    /\ UNCHANGED <<clock, logged, raceOnlyVars, legacyHistory, lastRun,
                   sinceReset, got, streamOnlyVars, restVars>>

StreamDeleteNext ==
    \/ StreamNext
    \/ \E sid \in SessionNames : StreamDeleteSession(sid)

SpecStreamDelete == StreamInit /\ [][StreamDeleteNext]_vars

\* C22: after DELETE /sessions/{id} has returned success, and as long as no
\* new chat request for id is received, load_session(id) returns None and
\* the index has no entry for id, also when a chat request for id was in
\* progress when the delete ran.
C22_DeletedSessionStaysDeleted ==
    lastOp.op = "delete_session"
        => /\ IsNone(load_session(sessionFiles, lastOp.session_id))
           /\ lastOp.session_id \notin IndexKeys(sessionsIndex)

\* ------------------------------------------------------- enqueue_reply
\* src/src/main.py:456-483.  A reply is a sequence of characters; a
\* character is a small number here.
CHUNK_THRESHOLD == 6000

CHUNK_SIZE == 3000

\* reply[start:end]
Slice(text, start, end) ==
    SubSeq(text, start + 1, IF end < Len(text) THEN end ELSE Len(text))

ChunkEvent(reply, idx, total_chunks) ==
    [type |-> "chunk",
     data |-> Slice(reply, idx * CHUNK_SIZE, idx * CHUNK_SIZE + CHUNK_SIZE),
     index |-> idx, total |-> total_chunks]

\* mutant of enqueue_reply: the number of chunks is rounded down
enqueue_reply_floor(reply) ==
    IF reply.none THEN <<[type |-> "done"]>>
    ELSE IF Len(reply.text) > CHUNK_THRESHOLD
    THEN LET total_chunks == Len(reply.text) \div CHUNK_SIZE
         IN <<[type |-> "chunk_start", total_chunks |-> total_chunks]>>
            \o [i \in 1..total_chunks |->
                    ChunkEvent(reply.text, i - 1, total_chunks)]
            \o <<[type |-> "chunk_end"], [type |-> "done"]>>
    ELSE <<[type |-> "done", reply |-> reply.text]>>

\* the events enqueue_reply(reply) puts on status_queue
enqueue_reply(reply) ==
    IF reply.none THEN <<[type |-> "done"]>>
    ELSE IF Len(reply.text) > CHUNK_THRESHOLD
    THEN LET total_chunks == (Len(reply.text) + CHUNK_SIZE - 1) \div CHUNK_SIZE
         IN <<[type |-> "chunk_start", total_chunks |-> total_chunks]>>
            \o [i \in 1..total_chunks |->
                    ChunkEvent(reply.text, i - 1, total_chunks)]
            \o <<[type |-> "chunk_end"], [type |-> "done"]>>
    ELSE <<[type |-> "done", reply |-> reply.text]>>

\* the lengths around the threshold and around the multiples of CHUNK_SIZE
ReplyLengths ==
    {n \in 0..MaxReplyLen :
        \/ n <= 2
        \/ \E m \in {CHUNK_SIZE, CHUNK_THRESHOLD, 3 * CHUNK_SIZE} :
               n - m \in -3..3}

\* the text of length n whose i-th character is i * stride modulo 7
ReplyText(n, stride) == [i \in 1..n |-> (i * stride) % 7]

Replies ==
    {NoReply}
        \cup {[none |-> FALSE, text |-> ReplyText(n, stride)] :
                 n \in ReplyLengths, stride \in 1..MaxStride}

ChunkInit ==
    /\ sessionFiles = NoFiles
    /\ sessionsIndex = <<>>
    /\ clock = 0
    /\ HistParked
    /\ RaceParked
    /\ ChatParked
    /\ StreamParked
    /\ RestParked

chunkOthers == <<diskVars, histVars, raceOnlyVars, chatOnlyVars,
                 streamOnlyVars, plannerVars, planRunVars, flowVars,
                 pieceVars, docVars, guideVars, routeVars, checkVars,
                 threadVars>>

\* enqueue_reply(assistant_reply) on the queue of one request
EnqueueReply(reply) ==
    /\ ~crCalled
    /\ crReply' = reply
    /\ crQueue' = enqueue_reply(reply)
    /\ crCalled' = TRUE
    /\ UNCHANGED chunkOthers

ChunkNext == \E reply \in Replies : EnqueueReply(reply)

SpecChunk == ChunkInit /\ [][ChunkNext]_vars

\* ceil(n / d)
CeilDiv(n, d) == IF n % d = 0 THEN n \div d ELSE n \div d + 1

\* the data of the chunk events of a queue, joined in the order of index
RECURSIVE JoinChunks(_, _, _)
JoinChunks(queue, idx, total) ==
    IF idx = total THEN <<>>
    ELSE LET e == CHOOSE e \in {queue[i] : i \in 1..Len(queue)} :
                      e.type = "chunk" /\ e.index = idx
         IN e.data \o JoinChunks(queue, idx + 1, total)

\* C23: for a reply longer than 6000 characters the worker enqueues, in
\* this order, chunk_start with total_chunks = ceil(len / 3000), the chunk
\* events 0..total_chunks-1 whose data joined in index order is the reply,
\* chunk_end, and a done without a reply; for a reply of 6000 characters at
\* most it enqueues a single done that carries the whole reply.
C23_ChunksRebuildReply ==
    (crCalled /\ ~crReply.none) =>
        LET n == Len(crReply.text)
            total == CeilDiv(n, 3000)
        IN IF n > 6000
           THEN /\ Len(crQueue) = total + 3
                /\ crQueue[1] = [type |-> "chunk_start", total_chunks |-> total]
                /\ \A i \in 1..total :
                       /\ crQueue[i + 1].type = "chunk"
                       /\ crQueue[i + 1].index = i - 1
                /\ JoinChunks(crQueue, 0, total) = crReply.text
                /\ crQueue[total + 2] = [type |-> "chunk_end"]
                /\ crQueue[total + 3] = [type |-> "done"]
           ELSE crQueue = <<[type |-> "done", reply |-> crReply.text]>>

\* a reply of 6001 characters went out in three chunks, the last of one
\* character
C23_Witness ==
    /\ crCalled
    /\ Len(crReply.text) = 6001
    /\ Len(crQueue) = 6
    /\ Len(crQueue[4].data) = 1

\* ----------------------------------------------- is_activepieces_query
\* src/src/query_utils.py:238-272 on the history the chat endpoints pass:
\* the texts of the HISTORY_LIMIT latest messages at most.
RouteTexts == {" ", "hi", "slack", "activepieces"}

RouteQueries == {"hi", "slack"}

RouteInit ==
    /\ sessionFiles = NoFiles
    /\ sessionsIndex = <<>>
    /\ clock = 0
    /\ HistParked
    /\ RaceParked
    /\ ChatParked
    /\ StreamParked
    /\ PlannerParked
    /\ PlanRunParked
    /\ FlowParked
    /\ PieceParked
    /\ DocParked
    /\ GuideParked
    /\ ChunkParked
    /\ CheckParked
    /\ ThreadParked
    /\ iqQuery \in RouteQueries
    /\ iqHistory \in SeqsUpTo(RouteTexts, MaxHistory)
    /\ iqResult = FALSE
    /\ iqCalled = FALSE

routeOthers == <<diskVars, histVars, raceOnlyVars, chatOnlyVars,
                 streamOnlyVars, plannerVars, planRunVars, flowVars,
                 pieceVars, docVars, guideVars, chunkVars, checkVars,
                 threadVars>>

\* is_activepieces_query(user_message, history=history_context)
IsActivepiecesQuery ==
    /\ ~iqCalled
    /\ iqResult' = is_activepieces_query(iqQuery, iqHistory)
    /\ iqCalled' = TRUE
    /\ UNCHANGED <<iqQuery, iqHistory, routeOthers>>

RouteNext == IsActivepiecesQuery

SpecRoute == RouteInit /\ [][RouteNext]_vars

\* the entry names the domain by itself
NamesDomain(entry) == entry = "activepieces"

\* fewer than n of the entries behind position i are not blank
AmongLatest(history, i, n) ==
    Cardinality({j \in (i + 1)..Len(history) : history[j] \notin {"", " "}}) < n

\* C24 as stated: for a query that does not match the domain itself,
\* is_activepieces_query returns True whenever an entry of the history (the
\* 8 latest messages at most) matches the domain.
C24_AnyHistoryEntryKeepsAgent ==
    (iqCalled /\ ~NamesDomain(iqQuery)
        /\ \E i \in 1..Len(iqHistory) : NamesDomain(iqHistory[i]))
        => iqResult

\* C24: for a query that does not match the domain itself,
\* is_activepieces_query returns True whenever one of the six latest
\* non-blank entries of the history matches the domain.
C24_RecentHistoryKeepsAgent ==
    (iqCalled /\ ~NamesDomain(iqQuery)
        /\ \E i \in 1..Len(iqHistory) :
               NamesDomain(iqHistory[i]) /\ AmongLatest(iqHistory, i, 6))
        => iqResult

\* a follow-up whose history names the domain six messages back
C24_Witness ==
    /\ iqCalled
    /\ iqQuery = "hi"
    /\ Len(iqHistory) = 8
    /\ iqHistory[3] = "activepieces"
    /\ \A i \in 1..8 : i # 3 => iqHistory[i] = "hi"
    /\ iqResult

\* ------------------------------------- src/src/tools.py: check_activepieces
\* caOpen says whether ActivepiecesDB() can open the pieces database and run
\* its queries; when it cannot, the with-block raises.

\* tools.py:95-127  the except clause of find_piece_by_name returns None
find_piece_on(open, catalogue, name) ==
    IF ~open THEN NoPiece ELSE find_piece_by_name(catalogue, name)

\* tools.py:130-155  actions_fts MATCH ?, any exception gives []
find_action_by_name(open, actions, action_name) ==
    LET results == search_pieces(actions, PieceLower(action_name), 50)
    IN IF ~open \/ results.raised THEN <<>> ELSE results.rows

\* q is a run of consecutive pieces of text
IsInfix(q, text) ==
    \E k \in 0..(Len(text) - Len(q)) :
        \A i \in 1..Len(q) : text[k + i] = q[i]

\* tools.py:158-200  LOWER(display_name) LIKE %q% OR LOWER(name) LIKE %q%,
\* any exception gives []
find_trigger_by_name(open, triggers, trigger_name) ==
    IF ~open THEN <<>>
    ELSE FirstN(SelectSeq(triggers,
                   LAMBDA row :
                       \/ IsInfix(PieceLower(trigger_name),
                                  PieceLower(row.display_name))
                       \/ IsInfix(PieceLower(trigger_name),
                                  PieceLower(row.name))),
                50)

\* tools.py:581-655  which of its five answers check_activepieces gives;
\* "db_failed" is the answer of the except clause around find_piece_by_name,
\* which is taken when find_piece_by_name raises
check_activepieces(open, catalogue, actions, triggers, query) ==
    LET q == Strip(query)
    IN IF find_piece_on(open, catalogue, q) # NoPiece THEN "yes_piece"
       ELSE IF find_action_by_name(open, actions, q) # <<>>
            THEN "found_actions"
       ELSE IF find_trigger_by_name(open, triggers, q) # <<>>
            THEN "found_triggers"
       ELSE "no_does_not_have"

SendMessage == NewPiece(<<"send_message">>, <<"send", " ", "message">>,
                        <<"files">>)

NewMessage == NewPiece(<<"new_message">>, <<"new", " ", "message">>,
                       <<"files">>)

CheckQueries ==
    {<<"Slack">>, <<" ", "send">>, <<"new">>, <<"message">>, <<"zoom">>,
     <<"google", "-", "sheets">>}

CheckInit ==
    /\ sessionFiles = NoFiles
    /\ sessionsIndex = <<>>
    /\ clock = 0
    /\ HistParked
    /\ RaceParked
    /\ ChatParked
    /\ StreamParked
    /\ PlannerParked
    /\ PlanRunParked
    /\ FlowParked
    /\ DocParked
    /\ GuideParked
    /\ ChunkParked
    /\ RouteParked
    /\ ThreadParked
    /\ pcCatalogue \in Catalogues
    /\ pcQuery = <<>>
    /\ pcResult = NoPiece
    /\ pcCalled = FALSE
    /\ caOpen \in BOOLEAN
    /\ caActions \in {<<>>, <<SendMessage>>}
    /\ caTriggers \in {<<>>, <<NewMessage>>}
    /\ caQuery = <<>>
    /\ caResult = "not called"

checkOthers == <<diskVars, histVars, raceOnlyVars, chatOnlyVars,
                 streamOnlyVars, plannerVars, planRunVars, flowVars,
                 pieceVars, docVars, guideVars, chunkVars, routeVars,
                 threadVars>>

\* check_activepieces(query)
CheckActivepieces(query) ==
    /\ caQuery' = query
    /\ caResult' = check_activepieces(caOpen, pcCatalogue, caActions,
                                      caTriggers, query)
    /\ UNCHANGED <<caOpen, caActions, caTriggers, checkOthers>>

CheckNext == \E query \in CheckQueries : CheckActivepieces(query)

SpecCheck == CheckInit /\ [][CheckNext]_vars

\* C25: when the pieces database cannot be opened or queried,
\* check_activepieces answers 'Database connection failed. Unable to verify'
\* and never that the integration does not exist.
C25_DatabaseFailureIsReported ==
    (~caOpen /\ caResult # "not called") => caResult = "db_failed"

\* --------------------------------------------- the fallback plan is cached
\* the cache key of a query; the model name in it is the same in every call
PlanCacheKey(q) == Lower(Strip(q))

\* the call just made asked the model and answered with the fallback plan
AnsweredWithFallback ==
    /\ planCalls > 0
    /\ llmCalls = 1
    /\ planResult = _create_fallback_plan(Strip(planQuery))

\* the plan the cache holds for the key
CachedPlan(cache, key) == cache[CachePos(cache, key)].plan

\* C26: once analyze_query has answered with the fallback plan because the
\* model call or the parsing of its answer failed, the fallback is in the
\* cache under the query's key, and a call whose key (the query stripped and
\* lower-cased) is in the cache returns the cached plan without calling the
\* model: every later call with the same query gets that fallback until the
\* entry is evicted.
C26_FallbackServedFromCache ==
    [][/\ AnsweredWithFallback'
          => /\ CachePos(planCache', PlanCacheKey(planQuery')) # 0
             /\ CachedPlan(planCache', PlanCacheKey(planQuery')) = planResult'
       /\ (AnsweredWithFallback
             /\ PlanCacheKey(planQuery') = PlanCacheKey(planQuery))
          => /\ planResult' = planResult
             /\ llmCalls' = 0
             /\ planHit'
       /\ (/\ Strip(planQuery') # <<>>
           /\ CachePos(planCache, PlanCacheKey(planQuery')) # 0
           /\ PlanTruthy(CachedPlan(planCache, PlanCacheKey(planQuery'))))
          => /\ planResult' = CachedPlan(planCache, PlanCacheKey(planQuery'))
             /\ llmCalls' = 0]_vars

\* the second call repeats, after a blank, the question whose first call
\* failed, and gets the fallback of the first call from the cache
C26_Witness ==
    /\ planCalls = 2
    /\ planHit
    /\ llmCalls = 0
    /\ planQuery # Strip(planQuery)
    /\ planResult = _create_fallback_plan(Strip(planQuery))

\* ------------------------------------------ concurrent analyze_query calls
\* src/src/planner.py:71-84, 165-321: the threads of PlanThreads call
\* analyze_query on one planner.  _get_cached_plan and _store_plan hold
\* _cache_lock, so each is one step; the model call between them is not.
\* lastUse[key] is the time of the latest store or read of the key.
ThreadQueries ==
    {<<"slack">>, <<"input">>, <<"step">>, <<" ", "slack">>}

ThreadReplies ==
    {reply \in LlmReplies :
        reply.kind \in {"malformed"} \/ reply.plan.keys \in {{}, PlanKeys}}

ThreadInit ==
    /\ sessionFiles = NoFiles
    /\ sessionsIndex = <<>>
    /\ clock = 0
    /\ HistParked
    /\ RaceParked
    /\ ChatParked
    /\ StreamParked
    /\ PlannerParked
    /\ PlanRunParked
    /\ FlowParked
    /\ PieceParked
    /\ DocParked
    /\ GuideParked
    /\ ChunkParked
    /\ RouteParked
    /\ CheckParked
    /\ ThreadParked

threadOthers == <<diskVars, histVars, raceOnlyVars, chatOnlyVars,
                  streamOnlyVars, planRunVars, flowVars, pieceVars, docVars,
                  guideVars, chunkVars, routeVars, checkVars, planQuery,
                  planResult, planCalls, llmCalls, planHit>>

Used(key) == [k \in DOMAIN lastUse \cup {key} |->
                 IF k = key THEN useClock + 1 ELSE lastUse[k]]

\* analyze_query up to the answer of _get_cached_plan: a truthy plan is
\* returned, otherwise the thread goes on to build one
ThreadLookup(t, q) ==
    LET cache_key == Lower(Strip(q))
        cached == _get_cached_plan(planCache, cache_key)
        found == CachePos(planCache, cache_key) # 0
    IN /\ tPc[t] = "idle"
       /\ useClock < MaxUses
       /\ planCache' = cached.cache
       /\ lastUse' = IF found THEN Used(cache_key) ELSE lastUse
       /\ useClock' = IF found THEN useClock + 1 ELSE useClock
       /\ tPc' = [tPc EXCEPT ![t] = IF PlanTruthy(cached.plan)
                                    THEN "returned" ELSE "missed"]
       /\ tQuery' = [tQuery EXCEPT ![t] = q]
       /\ UNCHANGED threadOthers

\* the rest of analyze_query: the fast plan, the model's plan or the
\* fallback is stored and returned
ThreadStore(t, reply) ==
    LET cache_key == Lower(Strip(tQuery[t]))
        plan == analyze_query(<<>>, tQuery[t], reply).result
    IN /\ tPc[t] = "missed"
       /\ planCache' = _store_plan(planCache, cache_key, plan)
       /\ lastUse' = Used(cache_key)
       /\ useClock' = useClock + 1
       /\ tPc' = [tPc EXCEPT ![t] = "returned"]
       /\ UNCHANGED <<tQuery, threadOthers>>

\* the thread takes the next request
ThreadReturn(t) ==
    /\ tPc[t] = "returned"
    /\ tPc' = [tPc EXCEPT ![t] = "idle"]
    /\ UNCHANGED <<planCache, tQuery, lastUse, useClock, threadOthers>>

ThreadNext ==
    \E t \in PlanThreads :
        \/ \E q \in ThreadQueries : ThreadLookup(t, q)
        \/ \E reply \in ThreadReplies : ThreadStore(t, reply)
        \/ ThreadReturn(t)

SpecPlanCache == ThreadInit /\ [][ThreadNext]_vars

CacheKeys(cache) == {cache[i].key : i \in 1..Len(cache)}

\* C27: after any sequence of analyze_query calls, concurrent ones included,
\* the cache holds at most _cache_maxsize entries, and an entry that leaves
\* the cache is the one stored or read least recently.
C27_CacheBoundedAndLru ==
    /\ [](Len(planCache) <= _cache_maxsize)
    /\ [][\A gone \in CacheKeys(planCache) \ CacheKeys(planCache') :
              \A k \in CacheKeys(planCache) :
                  lastUse[gone] <= lastUse[k]]_vars

\* the cache is full and "input", used before "slack" was last used, has
\* left it while both threads are inside analyze_query
C27_Witness ==
    /\ Len(planCache) = _cache_maxsize
    /\ \E gone \in DOMAIN lastUse \ CacheKeys(planCache) :
           \E k \in CacheKeys(planCache) :
               /\ k = <<"slack">>
               /\ gone = <<"input">>
               /\ planCache[1].key = k
               /\ lastUse[k] = 3
    /\ \A t \in PlanThreads : tPc[t] # "idle"

====
